---- MODULE Spec2Model ----
(***************************************************************************)
(* The session relay engine of openclaw-pwa-chat (src/src/ws-server.ts,    *)
(* src/src/message-store.ts) together with the browser side of the         *)
(* protocol (src/src/client/hooks/useWebSocket.ts), for one UserKey.       *)
(*                                                                         *)
(* Node runs every handler to completion, so each handler is one action.   *)
(* Texts are sequences of one-character strings, so that concatenation,    *)
(* parseInt and String() are computed and not assumed.                     *)
(***************************************************************************)
EXTENDS Integers, Sequences, FiniteSets, TLC

\* ---------------------------------------------------------------- bounds
\* Cap on the per-user sequence counter (the counter itself is unbounded).
MaxSeq == 5
\* Sockets accepted over the life of the process.
MaxSockets == 2
\* Browser tabs running useWebSocket.
NumTabs == 2
\* Dispatches started over the life of the process.
MaxDispatch == 1
\* Stand-in for EVENT_BUFFER_SIZE = 500 (ws-server.ts:21), scaled so that
\* eviction happens within MaxSeq events.
EVENT_BUFFER_SIZE == 3
\* Stand-in for MAX_HISTORY = 500 (types.ts), scaled likewise.
MAX_HISTORY == 2

\* the length of a push notification's preview (100 in the source)
PREVIEW_LEN == 2
\* Frames other than resync and message the sockets are followed through.
MaxFrames == 2
\* Push endpoints the browsers subscribe with.
MaxEndpoints == 2

Tabs == 1..NumTabs
Sockets == 1..MaxSockets
Dispatches == 1..MaxDispatch

\* ------------------------------------------------------------------ texts
Digits == <<"0", "1", "2", "3", "4", "5", "6", "7", "8", "9">>

DigitVal(c) == CHOOSE d \in 0..9 : Digits[d + 1] = c

IsDigit(c) == \E d \in 0..9 : Digits[d + 1] = c

\* String(n) for a non-negative integer n.
RECURSIVE ToStr(_)
ToStr(n) == IF n < 10 THEN <<Digits[n + 1]>>
            ELSE ToStr(n \div 10) \o <<Digits[(n % 10) + 1]>>

\* The longest prefix of str made of decimal digits.
RECURSIVE DigitPrefix(_)
DigitPrefix(str) ==
    IF str = <<>> \/ ~IsDigit(Head(str)) THEN <<>>
    ELSE <<Head(str)>> \o DigitPrefix(Tail(str))

RECURSIVE DigitsValue(_, _)
DigitsValue(ds, acc) ==
    IF ds = <<>> THEN acc ELSE DigitsValue(Tail(ds), acc * 10 + DigitVal(Head(ds)))

\* parseInt(str, 10): optional sign, then the leading digits; NaN when there
\* is no digit.
ParseInt(str) ==
    LET neg  == str # <<>> /\ Head(str) = "-"
        body == IF str # <<>> /\ Head(str) \in {"-", "+"} THEN Tail(str) ELSE str
        ds   == DigitPrefix(body)
    IN  IF ds = <<>> THEN [nan |-> TRUE, val |-> 0]
        ELSE [nan |-> FALSE,
              val |-> IF neg THEN 0 - DigitsValue(ds, 0) ELSE DigitsValue(ds, 0)]

\* ----------------------------------------------------------------- events
\* connectionIds are modelled as naturals: 0 is the empty string, n > 0 the
\* n-th value randomUUID() returned.
NoConnId == 0

\* imageCount 0 stands for a message without hasImages and imageCount.
NoMsg == [id |-> <<"", 0>>, text |-> <<>>, role |-> "none", imageCount |-> 0]

StoredMessage(prefix, n, text, role) ==
    [id |-> <<prefix, n>>, text |-> text, role |-> role, imageCount |-> 0]

\* A user message stored with hasImages: true and imageCount: images.length.
WithImages(msg, images) == [msg EXCEPT !.imageCount = images]

Event(type, seq, cid, messages, msg, text) ==
    [type |-> type, seq |-> seq, connectionId |-> cid,
     messages |-> messages, msg |-> msg, text |-> text]

HelloEv(cid, seq) == Event("hello", seq, cid, <<>>, NoMsg, <<>>)
HistoryEv(messages, seq) == Event("history", seq, NoConnId, messages, NoMsg, <<>>)
MessageEv(msg, seq) == Event("message", seq, NoConnId, <<>>, msg, <<>>)
StreamingEv(text, seq) == Event("streaming", seq, NoConnId, <<>>, NoMsg, text)
StreamingEndEv(seq) == Event("streaming_end", seq, NoConnId, <<>>, NoMsg, <<>>)

\* { type: "pong" } has no seq property: NoSeq stands for its absence.
NoSeq == -1
PongEv == Event("pong", NoSeq, NoConnId, <<>>, NoMsg, <<>>)

\* An event before broadcast attaches its seq.
WithSeq(ev, seq) == [ev EXCEPT !.seq = seq]

VARIABLES
    sequence,        \* UserState.sequence
    eventBuffer,     \* UserState.eventBuffer
    clients,         \* UserState.clients: the registered ClientInfo, by socket
    sock,            \* per accepted socket: readyState, connectionId, url params
    streamingState,  \* streamingState.get(userId): [has, text, timer]
    timers,          \* armed setTimeout handles
    history,         \* the stored history file of the user
    idCount,         \* message ids handed out by nextMessageId
    uuidCount,       \* values handed out by randomUUID
    dispatch,        \* per dispatchInbound call: its locals and position
    tab,             \* per browser tab: the refs of useWebSocket
    wire,            \* per socket: every frame the server wrote to it, in order
    emitted,         \* every seq-bearing event created, in creation order
    scn,             \* how far the run has followed Scenario; -1 once it left it
    missed,          \* per tab: messages broadcast while the tab had no socket
    pushes,          \* the push notifications fired for the user, in order
    others,          \* userStates, history and pushes of the other users
    request,         \* auth.ts: the request checkAuth is given, and its verdict
    files,           \* message-store.ts: the content of each file of STORE_DIR
    ret,             \* message-store.ts: the last call and what it returned
    subscriptions,   \* push.ts: subscriptions.json, per user
    sending,         \* push.ts: the sendPushNotification call under way
    response         \* http-server.ts: what the last refused upgrade or HTTP request got

\* The relay (ws-server.ts with its clients).
relay == <<sequence, eventBuffer, clients, sock, streamingState, timers, history,
           idCount, uuidCount, dispatch, tab, wire, emitted, scn, missed,
           pushes, others>>

\* The modules that are called on their own.
authVars == <<request>>
storeVars == <<files, ret>>
subsVars == <<subscriptions, sending>>
httpVars == <<response>>
standalone == <<authVars, storeVars, subsVars, httpVars>>

vars == <<relay, standalone>>

\* ----------------------------------------------------------- server state
\* The part of the server's state that the helper functions below read and
\* change; an action threads it through the calls its handler makes.
Cur == [sequence |-> sequence, eventBuffer |-> eventBuffer, wire |-> wire,
        emitted |-> emitted, streamingState |-> streamingState,
        timers |-> timers, history |-> history, idCount |-> idCount,
        clients |-> clients, pushes |-> pushes]

Commit(S) ==
    /\ sequence' = S.sequence
    /\ eventBuffer' = S.eventBuffer
    /\ wire' = S.wire
    /\ emitted' = S.emitted
    /\ streamingState' = S.streamingState
    /\ timers' = S.timers
    /\ history' = S.history
    /\ idCount' = S.idCount
    /\ pushes' = S.pushes

NoStreaming == [has |-> FALSE, text |-> <<>>, timer |-> 0]

\* Mutant: the counter is read but not advanced.
getNextSeq_NoIncrement(S) == S

\* state.sequence++ : the value returned is S.sequence, the state after is this.
getNextSeq(S) == [S EXCEPT !.sequence = @ + 1]

\* Mutant: the newest entry is dropped when the buffer is full.
addToBuffer_DropNewest(S, msg, seq) ==
    LET pushed == Append(S.eventBuffer, [seq |-> seq, msg |-> msg])
    IN  [S EXCEPT !.eventBuffer =
            IF Len(pushed) > EVENT_BUFFER_SIZE
            THEN SubSeq(pushed, 1, EVENT_BUFFER_SIZE) ELSE pushed]

\* Mutant: the eviction test is off by one.
addToBuffer_EvictEarly(S, msg, seq) ==
    LET pushed == Append(S.eventBuffer, [seq |-> seq, msg |-> msg])
    IN  [S EXCEPT !.eventBuffer =
            IF Len(pushed) >= EVENT_BUFFER_SIZE THEN Tail(pushed) ELSE pushed]

addToBuffer(S, msg, seq) ==
    LET pushed == Append(S.eventBuffer, [seq |-> seq, msg |-> msg])
    IN  [S EXCEPT !.eventBuffer =
            IF Len(pushed) > EVENT_BUFFER_SIZE THEN Tail(pushed) ELSE pushed]

\* ws.send(JSON.stringify(msg)) on socket s; a write that fails puts nothing
\* on the wire.
send(S, s, msg) == IF sock[s].failing THEN S ELSE [S EXCEPT !.wire[s] = Append(@, msg)]

\* Mutant: the pong takes a seq from the counter like a data event.
sendPong_ConsumeSeq(S, s) ==
    LET S1 == [S EXCEPT !.sequence = @ + 1]
    IN  send(S1, s, [PongEv EXCEPT !.seq = S.sequence])

\* The ping branch of the message handler: ws.send of { type: "pong" }.
sendPong(S, s) == send(S, s, PongEv)

\* Bookkeeping only: the event joins the record of created events.
emit(S, msg) == [S EXCEPT !.emitted = Append(@, msg)]

\* Mutant: with no client to send to, the event takes a seq but is not buffered.
broadcast_SkipBufferWhenAlone(S, msgWithoutSeq) ==
    LET seq == S.sequence
        S1  == getNextSeq(S)
        msg == WithSeq(msgWithoutSeq, seq)
        S2  == IF S.clients = {} THEN S1 ELSE addToBuffer(S1, msg, seq)
        S3  == [S2 EXCEPT !.wire =
                  [s \in Sockets |->
                      IF s \in S.clients /\ sock[s].readyState = "OPEN"
                      THEN Append(S2.wire[s], msg) ELSE S2.wire[s]]]
    IN  emit(S3, msg)

\* Mutant: the loop over the clients ends at the first write that fails.
\* The clients are visited in the order they were added, the order of their
\* socket numbers.
broadcast_AbortOnFailure(S, msgWithoutSeq) ==
    LET seq == S.sequence
        S1  == getNextSeq(S)
        msg == WithSeq(msgWithoutSeq, seq)
        S2  == addToBuffer(S1, msg, seq)
        visited(s) == s \in S.clients /\ sock[s].readyState = "OPEN"
        S3  == [S2 EXCEPT !.wire =
                  [s \in Sockets |->
                      IF /\ visited(s)
                         /\ \A r \in 1..s : visited(r) => ~sock[r].failing
                      THEN Append(S2.wire[s], msg) ELSE S2.wire[s]]]
    IN  emit(S3, msg)

\* info.ws.send(data) of an open socket returns; when the write fails the
\* frame does not reach the wire, and the socket's error event fires later.
broadcast(S, msgWithoutSeq) ==
    LET seq == S.sequence
        S1  == getNextSeq(S)
        msg == WithSeq(msgWithoutSeq, seq)
        S2  == addToBuffer(S1, msg, seq)
        S3  == [S2 EXCEPT !.wire =
                  [s \in Sockets |->
                      IF s \in S.clients /\ sock[s].readyState = "OPEN"
                         /\ ~sock[s].failing
                      THEN Append(S2.wire[s], msg) ELSE S2.wire[s]]]
    IN  emit(S3, msg)

\* ----------------------------------------------------------- streaming
\* setTimeout returns a handle that is not among the armed ones.
NewTimer(S) ==
    CHOOSE i \in 1..(Cardinality(S.timers) + 1) :
        i \notin S.timers /\ \A j \in 1..(i - 1) : j \in S.timers

\* Mutant: the handle of the replaced state stays armed.
clearStreamingTimeout_KeepArmed(S) == S

clearStreamingTimeout(S) ==
    IF S.streamingState.has
    THEN [S EXCEPT !.timers = @ \ {S.streamingState.timer}]
    ELSE S

\* Mutant: a streaming state that is present keeps its text.
setStreamingText_KeepFirst(S, text) ==
    LET S1    == clearStreamingTimeout(S)
        timer == NewTimer(S1)
        kept  == IF S.streamingState.has THEN S.streamingState.text ELSE text
        S2    == [S1 EXCEPT !.timers = @ \cup {timer},
                            !.streamingState =
                                [has |-> TRUE, text |-> kept, timer |-> timer]]
    IN  broadcast(S2, StreamingEv(text, 0))

setStreamingText(S, text) ==
    LET S1    == clearStreamingTimeout(S)
        timer == NewTimer(S1)
        S2    == [S1 EXCEPT !.timers = @ \cup {timer},
                            !.streamingState =
                                [has |-> TRUE, text |-> text, timer |-> timer]]
    IN  broadcast(S2, StreamingEv(text, 0))

endStreaming(S) ==
    LET S1 == clearStreamingTimeout(S)
        S2 == [S1 EXCEPT !.streamingState = NoStreaming]
    IN  broadcast(S2, StreamingEndEv(0))

\* Mutant: the callback broadcasts streaming_end and keeps the state.
streamingTimeout_KeepState(S, timer) ==
    broadcast([S EXCEPT !.timers = @ \ {timer}], StreamingEndEv(0))

\* The callback armed by setStreamingText, for the handle `timer`.
streamingTimeout(S, timer) ==
    LET S1 == [S EXCEPT !.timers = @ \ {timer}, !.streamingState = NoStreaming]
    IN  broadcast(S1, StreamingEndEv(0))

\* ------------------------------------------------------------- history
RECURSIVE DropToMax(_)
DropToMax(msgs) == IF Len(msgs) > MAX_HISTORY THEN DropToMax(Tail(msgs)) ELSE msgs

readHistory(S) == S.history

\* Mutant: at the limit the newest message is the one dropped.
appendMessage_KeepOldest(S, msg) ==
    LET msgs == Append(readHistory(S), msg)
    IN  [S EXCEPT !.history =
            IF Len(msgs) > MAX_HISTORY THEN SubSeq(msgs, 1, MAX_HISTORY) ELSE msgs]

appendMessage(S, msg) ==
    [S EXCEPT !.history = DropToMax(Append(readHistory(S), msg))]

\* nextMessageId(prefix): the time and random parts are modelled as a fresh n.
nextMessageId(S) == S.idCount + 1

\* The one character U+2026 (horizontal ellipsis).
Ellipsis == "..."

\* text.length > 100 ? text.slice(0, 100) + Ellipsis : text
preview(text) ==
    IF Len(text) > PREVIEW_LEN
    THEN Append(SubSeq(text, 1, PREVIEW_LEN), Ellipsis) ELSE text

\* void sendPushNotification(userId, {title, body, tag}).catch(() => {}):
\* the call is recorded, its promise is still pending.
sendPushNotification(S, body) ==
    [S EXCEPT !.pushes = Append(@, [body |-> body, st |-> "pending"])]

\* Mutant: the notification is sent whether or not a client is registered.
pushOutboundMessage_AlwaysPush(S, text) ==
    LET msg == StoredMessage("out", nextMessageId(S), text, "assistant")
        S1  == [appendMessage(S, msg) EXCEPT !.idCount = @ + 1]
    IN  sendPushNotification(broadcast(S1, MessageEv(msg, 0)), preview(text))

\* pushOutboundMessage, for the state S of the user normalizeTarget gave.
pushOutboundMessage(S, text) ==
    LET msg == StoredMessage("out", nextMessageId(S), text, "assistant")
        S1  == [appendMessage(S, msg) EXCEPT !.idCount = @ + 1]
        S2  == broadcast(S1, MessageEv(msg, 0))
    IN  IF S2.clients = {} THEN sendPushNotification(S2, preview(text)) ELSE S2

\* --------------------------------------------------------- connections
\* A url parameter: absent, or a string.
Absent == [present |-> FALSE, value |-> <<>>]
Param(str) == [present |-> TRUE, value |-> str]

\* parseInt(urlParams?.get("sequence_number") ?? "0", 10)
incomingSeqOf(seqParam) ==
    ParseInt(IF seqParam.present THEN seqParam.value ELSE <<"0">>)

minBufferedSeq(S) ==
    IF Len(S.eventBuffer) > 0 THEN S.eventBuffer[1].seq ELSE S.sequence

maxBufferedSeq(S) ==
    IF Len(S.eventBuffer) > 0 THEN S.eventBuffer[Len(S.eventBuffer)].seq ELSE S.sequence

\* Mutant: the lower end of the range is excluded.
isReconnect_MinExclusive(S, incomingConnectionId, incomingSeq) ==
    /\ incomingConnectionId # NoConnId
    /\ ~incomingSeq.nan
    /\ incomingSeq.val > minBufferedSeq(S)
    /\ incomingSeq.val <= maxBufferedSeq(S)

\* The reconnect check: shouldResync is its negation.
isReconnect(S, incomingConnectionId, incomingSeq) ==
    /\ incomingConnectionId # NoConnId
    /\ ~incomingSeq.nan
    /\ incomingSeq.val >= minBufferedSeq(S)
    /\ incomingSeq.val <= maxBufferedSeq(S)

\* Mutant: the event with seq = incomingSeq is left out of the replay.
missedEvents_Exclusive(S, incomingSeq) ==
    SelectSeq(S.eventBuffer, LAMBDA e : e.seq > incomingSeq.val)

\* The buffered events with seq >= incomingSeq, in buffer order.
missedEvents(S, incomingSeq) ==
    SelectSeq(S.eventBuffer, LAMBDA e : e.seq >= incomingSeq.val)

RECURSIVE sendAll(_, _, _)
sendAll(S, s, entries) ==
    IF entries = <<>> THEN S
    ELSE sendAll(send(S, s, Head(entries).msg), s, Tail(entries))

\* "Send full history", then "Send current streaming state if any".
\* Mutant: the events are sent but not buffered.
sendHistoryAndStreaming_NoBuffer(S, s) ==
    LET historyMsg == HistoryEv(readHistory(S), S.sequence)
        S1 == emit(send(getNextSeq(S), s, historyMsg), historyMsg)
        streamMsg == StreamingEv(S1.streamingState.text, S1.sequence)
    IN  IF S1.streamingState.has
        THEN emit(send(getNextSeq(S1), s, streamMsg), streamMsg)
        ELSE S1

sendHistoryAndStreaming(S, s) ==
    LET historySeq == S.sequence
        historyMsg == HistoryEv(readHistory(S), historySeq)
        S1 == emit(addToBuffer(send(getNextSeq(S), s, historyMsg),
                               historyMsg, historySeq), historyMsg)
        streamSeq == S1.sequence
        streamMsg == StreamingEv(S1.streamingState.text, streamSeq)
    IN  IF S1.streamingState.has
        THEN emit(addToBuffer(send(getNextSeq(S1), s, streamMsg),
                              streamMsg, streamSeq), streamMsg)
        ELSE S1

\* handleConnection up to the registration of the socket's handlers, for the
\* accepted socket s; uuid is the value randomUUID() returned.
handleConnection(S, s, uuid, incomingConnectionId, seqParam) ==
    LET incomingSeq  == incomingSeqOf(seqParam)
        reconnect    == isReconnect(S, incomingConnectionId, incomingSeq)
        connectionId == IF reconnect THEN incomingConnectionId ELSE uuid
        helloSeq     == S.sequence
        helloMsg     == HelloEv(connectionId, helloSeq)
        S1           == emit(send(getNextSeq(S), s, helloMsg), helloMsg)
    IN  IF ~reconnect
        THEN sendHistoryAndStreaming(S1, s)
        ELSE sendAll(S1, s, missedEvents(S1, incomingSeq))

\* -------------------------------------------------------------- inputs
Hi == <<"h", "i">>
Hel == <<"h", "e", "l">>
Lo == <<"l", "o">>
HelloText == <<"h", "e", "l", "l", "o">>
Ok == <<"o", "k">>

\* Texts of client message frames.
ClientTexts == {Hi, <<" ">>, <<" ", "h", "i", " ">>}
\* A frame a client sends, as the message handler sees it: whether
\* JSON.parse accepts the text and what kind of value it yields, and for an
\* object its type property and its text property (a string or not).
Frame(json, type, isString, text) ==
    [json |-> json, type |-> type, isString |-> isString, text |-> text, images |-> 0]

NotJson == Frame("invalid", "", FALSE, <<>>)
NullFrame == Frame("null", "", FALSE, <<>>)
NumberFrame == Frame("number", "", FALSE, <<>>)
UnknownTypeFrame == Frame("object", "bogus", FALSE, <<>>)
NoTextFrame == Frame("object", "message", FALSE, <<>>)
PingFrame == Frame("object", "ping", FALSE, <<>>)
ResyncFrame == Frame("object", "resync", FALSE, <<>>)
MessageFrame(text) == Frame("object", "message", TRUE, text)
\* A message event with an images array of the given length.
ImageFrame(text, images) == [MessageFrame(text) EXCEPT !.images = images]
NoFrame == Frame("none", "", FALSE, <<>>)

\* Frames that are no ping, resync or message event.
MalformedFrames == {NotJson, NullFrame, NumberFrame, UnknownTypeFrame, NoTextFrame}
Frames ==
    MalformedFrames \cup {PingFrame, ResyncFrame}
        \cup {MessageFrame(text) : text \in ClientTexts}

\* Message events, with and without images.
ImageTexts == {Hi, <<" ">>}
MessageFrames ==
    {MessageFrame(text) : text \in ClientTexts}
        \cup {ImageFrame(text, 1) : text \in ImageTexts}

\* Texts handed to pushOutboundMessage by an outside caller.
PushTexts == {Ok}
\* deliver(payload, info) calls: info.kind and payload.text.
Deliveries == {<<"block", Hel>>, <<"block", Lo>>, <<"block", <<>>>>,
               <<"final", <<>>>>, <<"final", Lo>>, <<"tool", Hel>>}
\* connection_id and sequence_number values of a hand-made upgrade request.
RawRequests == {<<0, Absent>>, <<0, Param(<<"1">>)>>, <<9, Absent>>,
                <<9, Param(<<"1">>)>>, <<9, Param(<<"3">>)>>, <<9, Param(<<"x">>)>>}

IsSpace(c) == c = " "

RECURSIVE TrimLeft(_)
TrimLeft(str) == IF str # <<>> /\ IsSpace(Head(str)) THEN TrimLeft(Tail(str)) ELSE str

RECURSIVE TrimRight(_)
TrimRight(str) ==
    IF str # <<>> /\ IsSpace(str[Len(str)])
    THEN TrimRight(SubSeq(str, 1, Len(str) - 1)) ELSE str

\* String.prototype.trim
\* Mutant: the text is taken as it came.
Trim_None(str) == str

Trim(str) == TrimRight(TrimLeft(str))

\* ---------------------------------------------------------------- Init
\* User keys and the targets handed to pushOutboundMessage. The relay's
\* variables hold the state of MainUser; `others` holds the other users.
ChannelPrefix == <<"p", "w", "a", "-", "c", "h", "a", "t", ":">>
MainUser == <<"u">>
OtherUsers == {ChannelPrefix \o MainUser}
PushTargets == {MainUser, ChannelPrefix \o MainUser,
                ChannelPrefix \o ChannelPrefix \o MainUser}

\* Mutant: every leading "pwa-chat:" is stripped.
RECURSIVE normalizeTarget_StripAll(_)
normalizeTarget_StripAll(target) ==
    IF Len(target) >= Len(ChannelPrefix)
       /\ SubSeq(target, 1, Len(ChannelPrefix)) = ChannelPrefix
    THEN normalizeTarget_StripAll(SubSeq(target, Len(ChannelPrefix) + 1, Len(target)))
    ELSE target

\* target.replace(/^pwa-chat:/, "")
normalizeTarget(target) ==
    IF Len(target) >= Len(ChannelPrefix)
       /\ SubSeq(target, 1, Len(ChannelPrefix)) = ChannelPrefix
    THEN SubSeq(target, Len(ChannelPrefix) + 1, Len(target))
    ELSE target

\* getUserState and readHistory of a user never seen: no client ever
\* connects for the other users.
NoUser == [sequence |-> 0, eventBuffer |-> <<>>, wire |-> [s \in Sockets |-> <<>>],
           emitted |-> <<>>, streamingState |-> NoStreaming, timers |-> {},
           history |-> <<>>, idCount |-> 0, clients |-> {}, pushes |-> <<>>]

\* errored is bookkeeping: the error event of the socket has fired.
\* failing is bookkeeping: writes to the socket fail, its error event has not
\* fired yet and its readyState is still what it was.
\* ignored, lastIgnored and threw are bookkeeping: the frames the message
\* handler of the socket returned from without acting, the last message
\* event among them, and whether a call of the handler threw.
NoSock == [readyState |-> "NONE", connectionId |-> NoConnId, shouldResync |-> FALSE,
           tab |-> 0, connection_id |-> NoConnId, sequence_number |-> Absent,
           ignored |-> 0, threw |-> FALSE, lastIgnored |-> NoFrame, errored |-> FALSE,
           failing |-> FALSE]

\* chunks is bookkeeping: the non-empty texts delivered with kind block or final.
\* and lastStreaming the text of the last streaming event the call broadcast.
\* msgSeq is bookkeeping too: the seq of the message event broadcast by the
\* handler that called dispatchInbound.
NoDispatch == [st |-> "idle", accumulatedText |-> <<>>, finalDelivered |-> FALSE,
               chunks |-> <<>>, lastStreaming |-> <<>>, msgSeq |-> NoSeq]

NoTab == [ws |-> 0, closing |-> FALSE, rcv |-> 0, connectionIdRef |-> NoConnId,
          serverSequenceRef |-> 0, mismatch |-> 0]

Op(op, arg) == [op |-> op, arg |-> arg]

\* End-to-end scenarios 1 and 2: a first connection, the client message "hi",
\* and a reply delivered as block "hel", block "lo", final.
Scenario == <<Op("connect", <<>>), Op("message", Hi), Op("block", Hel),
              Op("block", Lo), Op("final", <<>>)>>

\* The tracker after the server performed op.
Track(op) ==
    IF scn >= 0 /\ scn < Len(Scenario) /\ Scenario[scn + 1] = op THEN scn + 1 ELSE -1

\* The relay before any connection, with room for the given dispatches.
InitRelayWith(dispatches) ==
    /\ sequence = 0
    /\ eventBuffer = <<>>
    /\ clients = {}
    /\ sock = [s \in Sockets |-> NoSock]
    /\ streamingState = NoStreaming
    /\ timers = {}
    /\ history = <<>>
    /\ idCount = 0
    /\ uuidCount = 0
    /\ dispatch = [d \in dispatches |-> NoDispatch]
    /\ tab = [t \in Tabs |-> NoTab]
    /\ wire = [s \in Sockets |-> <<>>]
    /\ emitted = <<>>
    /\ scn = 0
    /\ missed = [t \in Tabs |-> {}]
    /\ pushes = <<>>
    /\ others = [u \in OtherUsers |-> NoUser]

InitRelay == InitRelayWith(Dispatches)

\* ------------------------------------------------------------- auth.ts
\* A header or query parameter is Absent (undefined, null) or a string,
\* which may be empty. A value is truthy when it is a non-empty string.
Truthy(h) == h.present /\ h.value # <<>>

Secret == <<"s">>
Wrong == <<"w">>
Bearer == <<"B", "e", "a", "r", "e", "r">>
bearer == <<"b", "e", "a", "r", "e", "r">>

LowerChar(c) ==
    CASE c = "B" -> "b" [] c = "E" -> "e" [] c = "A" -> "a" [] c = "R" -> "r"
      [] OTHER -> c

Lower(str) == [i \in 1..Len(str) |-> LowerChar(str[i])]

\* authHeader.replace(/^Bearer\s+/i, ""): the word in any case and the white
\* space after it are taken off when at least one white space follows.
stripBearer(str) ==
    IF /\ Len(str) > Len(bearer)
       /\ Lower(SubSeq(str, 1, Len(bearer))) = bearer
       /\ IsSpace(str[Len(bearer) + 1])
    THEN TrimLeft(SubSeq(str, Len(bearer) + 1, Len(str)))
    ELSE str

\* a ?? b
Coalesce(a, b) == IF a.present THEN a ELSE b

LoopbackAddresses == {"127.0.0.1", "::1", "::ffff:127.0.0.1"}

\* Mutant: any of the three sources may carry the token.
checkAuth_AnySource(req) ==
    \/ Truthy(req.tailscale)
    \/ req.remote \in LoopbackAddresses
    \/ ~Truthy(req.token)
    \/ \E src \in {IF req.authorization.present
                     THEN Param(stripBearer(req.authorization.value)) ELSE Absent,
                    req.xToken, req.queryToken} :
          src.present /\ src.value = req.token.value

checkAuth(req) ==
    IF Truthy(req.tailscale) THEN TRUE
    ELSE IF req.remote \in LoopbackAddresses THEN TRUE
    ELSE IF ~Truthy(req.token) THEN TRUE
    ELSE LET authHeader == IF req.authorization.present
                           THEN Param(stripBearer(req.authorization.value)) ELSE Absent
             provided == Coalesce(authHeader, Coalesce(req.xToken, req.queryToken))
         IN  provided.present /\ provided.value = req.token.value

\* Requests: with and without each header, from loopback and from elsewhere,
\* with the token right, wrong, empty, and prefixed in several ways.
AuthorizationValues ==
    {Absent, Param(<<>>), Param(Secret), Param(Wrong),
     Param(Bearer \o <<" ">> \o Secret), Param(bearer \o <<" ", " ">> \o Secret),
     Param(Bearer \o Secret), Param(Bearer \o <<" ">> \o Wrong)}

SecretValues == {Absent, Param(<<>>), Param(Secret), Param(Wrong)}

ProxyHeaderValues == {Absent, Param(<<>>), Param(<<"u">>)}
RemoteAddresses == LoopbackAddresses \cup {"203.0.113.1"}
TokenValues == {Absent, Param(<<>>), Param(Secret)}

Requests ==
    [tailscale : ProxyHeaderValues,
     remote : RemoteAddresses,
     token : TokenValues,
     authorization : AuthorizationValues,
     xToken : SecretValues,
     queryToken : SecretValues,
     verdict : {"none"}]

NoRequest ==
    [tailscale |-> Absent, remote |-> "", token |-> Absent, authorization |-> Absent,
     xToken |-> Absent, queryToken |-> Absent, verdict |-> "none"]

\* ---------------------------------------------------- message-store.ts
\* storagePath: every character outside [a-zA-Z0-9_-] becomes "_". (The
\* user ids here have no upper-case letters.)
SafeChars ==
    {"a", "b", "c", "d", "e", "f", "g", "h", "i", "j", "k", "l", "m", "n", "o", "p",
     "q", "r", "s", "t", "u", "v", "w", "x", "y", "z", "_", "-"}
        \cup {Digits[i] : i \in 1..Len(Digits)}

storagePath(userId) ==
    [i \in 1..Len(userId) |-> IF userId[i] \in SafeChars THEN userId[i] ELSE "_"]

Default == <<"d", "e", "f", "a", "u", "l", "t">>

\* The userId of a connection and of deleteSession:
\* sessionId === "default" ? baseUserId : `${baseUserId}:${sessionId}`
UserKeyOf(baseUserId, sessionId) ==
    IF sessionId = Default THEN baseUserId ELSE baseUserId \o <<":">> \o sessionId

BaseUserIds == {<<"u">>}
SessionIds == {Default, <<"s">>}
\* The user ids the store is called with: those of the sessions, and one
\* whose file is that of another.
StoreUsers ==
    {UserKeyOf(b, sid) : b \in BaseUserIds, sid \in SessionIds} \cup {<<"u", "_", "s">>}
FileNames == {storagePath(u) : u \in StoreUsers}

\* What a file holds: nothing (no file), text that is no JSON, the JSON
\* null, a JSON object, or a JSON array of messages.
FileOf(kind, msgs) == [kind |-> kind, msgs |-> msgs]
Missing == FileOf("missing", <<>>)
ForeignContents == {FileOf("garbage", <<>>), FileOf("null", <<>>), FileOf("object", <<>>)}
StoreMessages ==
    {StoredMessage("in", 1, Hi, "user"), StoredMessage("out", 2, Ok, "assistant")}

\* readHistory(userId): [] for no file and for a failing JSON.parse,
\* otherwise whatever JSON.parse returned.
readHistoryFile(fs, userId) ==
    LET file == fs[storagePath(userId)]
    IN  IF file.kind \in {"missing", "garbage"} THEN FileOf("array", <<>>) ELSE file

\* appendMessage(userId, msg): push, shift, write; msgs.push throws a
\* TypeError when msgs is no array, before anything is written.
appendMessageFile(fs, userId, msg) ==
    LET msgs == readHistoryFile(fs, userId)
    IN  IF msgs.kind # "array" THEN [files |-> fs, threw |-> TRUE]
        ELSE [files |-> [fs EXCEPT ![storagePath(userId)] =
                            FileOf("array", DropToMax(Append(msgs.msgs, msg)))],
              threw |-> FALSE]

\* Mutant: the session "default" gets no file name of its own kind.
deleteSession_NoDefault(fs, sessionId, baseUserId) ==
    LET p == storagePath(baseUserId \o <<":">> \o sessionId)
    IN  IF p \in DOMAIN fs /\ fs[p].kind # "missing"
        THEN [files |-> [fs EXCEPT ![p] = Missing], ok |-> TRUE]
        ELSE [files |-> fs, ok |-> FALSE]

\* deleteSession(sessionId, baseUserId)
deleteSession(fs, sessionId, baseUserId) ==
    LET userId == IF sessionId = Default THEN baseUserId
                  ELSE baseUserId \o <<":">> \o sessionId
        p == storagePath(userId)
    IN  IF fs[p].kind # "missing"
        THEN [files |-> [fs EXCEPT ![p] = Missing], ok |-> TRUE]
        ELSE [files |-> fs, ok |-> FALSE]

\* The last call: its name and user id, the value returned by readHistory
\* (result), by deleteSession (ok), and whether the call threw.
Ret(op, userId, result, ok, threw) ==
    [op |-> op, userId |-> userId, result |-> result, ok |-> ok, threw |-> threw]
NoRet == Ret("none", <<>>, Missing, FALSE, FALSE)

InitStore ==
    /\ files = [f \in FileNames |-> Missing]
    /\ ret = NoRet

\* ------------------------------------------------------------- push.ts
SubUsers == {"a", "b"}
Endpoints == 1..MaxEndpoints
Keys == {"k1", "k2"}
PushSubscription(endpoint, keys) == [endpoint |-> endpoint, keys |-> keys]
PushSubscriptions == {PushSubscription(e, k) : e \in Endpoints, k \in Keys}
\* What a user's browsers subscribe with: user "a" has one browser per
\* endpoint, user "b" a single one.
SubscriptionsOf(userId) ==
    IF userId = "a" THEN PushSubscriptions ELSE {sub \in PushSubscriptions : sub.endpoint = 1}

\* subs.findIndex((s) => s.endpoint === endpoint); 0 stands for -1.
findIndex(subs, endpoint) ==
    LET found == {i \in 1..Len(subs) : subs[i].endpoint = endpoint}
    IN  IF found = {} THEN 0 ELSE CHOOSE i \in found : \A j \in found : i <= j

\* Mutant: no deduplication by endpoint.
addSubscription_AlwaysPush(store, userId, sub) ==
    [store EXCEPT ![userId] = Append(@, sub)]

\* addSubscription(userId, sub). A user without a key in the file and a
\* user with an empty list read the same everywhere, so both are <<>>.
addSubscription(store, userId, sub) ==
    LET existing == findIndex(store[userId], sub.endpoint)
    IN  IF existing > 0
        THEN [store EXCEPT ![userId][existing] = sub]
        ELSE [store EXCEPT ![userId] = Append(@, sub)]

\* removeSubscription(userId, endpoint)
removeSubscription(store, userId, endpoint) ==
    LET keep(s) == s.endpoint # endpoint
    IN  [store EXCEPT ![userId] = SelectSeq(@, keep)]

\* What a send to the push service ends with: delivered, the statuses of
\* a subscription that is gone, or another failure.
Statuses == {"ok", "404", "410", "other"}

\* Mutant: only status 410 marks a subscription as expired.
expiredOf_Only410(subs, outcome) ==
    LET gone(i) == outcome[i] = "410"
    IN  [i \in 1..Len(SelectSeq([j \in 1..Len(subs) |-> j], gone)) |->
            subs[SelectSeq([j \in 1..Len(subs) |-> j], gone)[i]].endpoint]

\* The endpoints pushed to expired by the catch blocks.
expiredOf(subs, outcome) ==
    LET gone(i) == outcome[i] \in {"410", "404"}
        at == SelectSeq([j \in 1..Len(subs) |-> j], gone)
    IN  [i \in 1..Len(at) |-> subs[at[i]].endpoint]

\* for (const ep of expired) removeSubscription(userId, ep)
RECURSIVE cleanUp(_, _, _)
cleanUp(store, userId, expired) ==
    IF expired = <<>> THEN store
    ELSE cleanUp(removeSubscription(store, userId, Head(expired)), userId, Tail(expired))

\* The sendPushNotification call: idle, its sends in flight (subs is what
\* it read from the store), or settled: outcome is what its sends ended
\* with, fresh says that the cleanup left a subscription in the store
\* that the call had not read.
NoSend == [st |-> "idle", userId |-> "", subs |-> <<>>, outcome |-> <<>>, fresh |-> FALSE]

InitSubs ==
    /\ subscriptions = [u \in SubUsers |-> <<>>]
    /\ sending = NoSend

\* ------------------------------------------------------ http-server.ts
WsPath == "/ws"
StatusPath == "/api/status"
\* Paths of upgrade requests, and of GET requests: the app shell, a script
\* of the shell, a path with no file behind it, and an endpoint of the API.
UpgradePaths == {WsPath, "/"}
HttpPaths == {"/", "/app.js", "/nowhere", StatusPath}

\* getGatewayToken(cfg): the configured token, "" when there is none.
getGatewayToken(req) == IF req.token.present THEN req.token.value ELSE <<>>

\* A response: its status (0 when the socket is destroyed without one),
\* the token its body carries if any, and, as bookkeeping, whether
\* checkAuth accepts the request it answers and whether that was an upgrade.
Response(status, token, req, upgrade) ==
    [status |-> status, token |-> token, authorized |-> checkAuth(req), upgrade |-> upgrade]
NoResponse == [status |-> 0, token |-> Absent, authorized |-> FALSE, upgrade |-> FALSE]

\* Mutant: the upgrade handler does not look at the path.
upgradeOutcome_AnyPath(path, req) ==
    IF ~checkAuth(req) THEN "401" ELSE "upgrade"

\* server.on("upgrade"): destroy, 401 and destroy, or handleUpgrade.
upgradeOutcome(path, req) ==
    IF path # WsPath THEN "destroy"
    ELSE IF ~checkAuth(req) THEN "401"
    ELSE "upgrade"

\* serveStaticFile: the shell for "/" and, by the SPA fallback, for a path
\* without a file, with the token put before </head>; other files as
\* they are.
serveStaticFile(path, req) ==
    IF path \in {"/", "/nowhere"}
    THEN Response(200, Param(getGatewayToken(req)), req, FALSE)
    ELSE Response(200, Absent, req, FALSE)

\* The request handler of http.createServer, for a GET.
httpResponse(path, req) ==
    IF path = StatusPath
    THEN Response(IF checkAuth(req) THEN 200 ELSE 401, Absent, req, FALSE)
    ELSE serveStaticFile(path, req)

InitHttp == response = NoResponse

Init ==
    /\ InitRelay
    /\ InitStore
    /\ InitSubs
    /\ InitHttp
    /\ request = NoRequest

\* The message events created between the current state and S.
NewMessages(S) ==
    {S.emitted[i].msg : i \in {j \in (Len(emitted) + 1)..Len(S.emitted) :
                                  S.emitted[j].type = "message"}}

\* Messages broadcast while a tab has no socket are what it missed.
NoteMissed(S) ==
    missed' = [t \in Tabs |->
                  IF tab[t].ws = 0 THEN missed[t] \cup NewMessages(S) ELSE missed[t]]

\* ------------------------------------------------------------- actions
FreeSocket(s) ==
    /\ sock[s].readyState = "NONE"
    /\ \A r \in 1..(s - 1) : sock[r].readyState # "NONE"

\* The upgrade of a request is accepted as socket s and handleConnection runs.
Accept(s, t, connection_id, sequence_number) ==
    LET uuid == uuidCount + 1
        S1   == handleConnection(Cur, s, uuid, connection_id, sequence_number)
        reconnect == isReconnect(Cur, connection_id, incomingSeqOf(sequence_number))
    IN  /\ FreeSocket(s)
        /\ Commit(S1)
        /\ uuidCount' = uuid
        /\ clients' = clients \cup {s}
        /\ sock' = [sock EXCEPT ![s] =
                      [readyState |-> "OPEN",
                       connectionId |-> IF reconnect THEN connection_id ELSE uuid,
                       shouldResync |-> ~reconnect,
                       tab |-> t,
                       connection_id |-> connection_id,
                       sequence_number |-> sequence_number,
                       ignored |-> 0, threw |-> FALSE, lastIgnored |-> NoFrame,
                       errored |-> FALSE, failing |-> FALSE]]
        /\ scn' = Track(Op("connect", IF connection_id = NoConnId THEN <<>> ELSE <<"r">>))
        /\ UNCHANGED <<standalone, dispatch, missed, others>>

\* doConnect of a tab: the url carries connection_id and sequence_number when
\* the tab holds a connectionId.
Connect(t) ==
    /\ tab[t].ws = 0
    /\ \E s \in Sockets :
        /\ Accept(s, t, tab[t].connectionIdRef,
                  IF tab[t].connectionIdRef # NoConnId
                  THEN Param(ToStr(tab[t].serverSequenceRef)) ELSE Absent)
        /\ tab' = [tab EXCEPT ![t].ws = s, ![t].closing = FALSE, ![t].rcv = 0]

\* An upgrade request made by hand, with any parameters.
ConnectRaw ==
    \E s \in Sockets, rq \in RawRequests :
        /\ Accept(s, 0, rq[1], rq[2])
        /\ UNCHANGED tab

\* ws.onmessage of a tab, for the next frame of its socket.
ClientReceive(t) ==
    /\ tab[t].ws # 0
    /\ ~tab[t].closing
    /\ tab[t].rcv < Len(wire[tab[t].ws])
    /\ LET msg == wire[tab[t].ws][tab[t].rcv + 1]
           T1  == [tab[t] EXCEPT !.rcv = @ + 1]
       IN  tab' = [tab EXCEPT ![t] =
              IF msg.type = "hello"
              THEN [T1 EXCEPT !.connectionIdRef = msg.connectionId,
                              !.serverSequenceRef = msg.seq + 1]
              ELSE IF msg.type = "pong" THEN T1
              ELSE IF msg.seq # tab[t].serverSequenceRef
              THEN [T1 EXCEPT !.closing = TRUE, !.mismatch = tab[t].ws]
              ELSE [T1 EXCEPT !.serverSequenceRef = msg.seq + 1]]
    /\ UNCHANGED <<standalone, others, pushes, sequence, eventBuffer, clients, sock, streamingState, timers,
                   history, idCount, uuidCount, dispatch, wire, emitted, scn, missed>>

\* ws.onclose of a tab: the socket is gone, whatever ended it.
ClientOnClose(t) ==
    /\ tab[t].ws # 0
    /\ tab' = [tab EXCEPT ![t].ws = 0, ![t].closing = FALSE, ![t].rcv = 0]
    /\ missed' = [missed EXCEPT ![t] = {}]
    /\ UNCHANGED <<standalone, others, pushes, sequence, eventBuffer, clients, sock, streamingState, timers,
                   history, idCount, uuidCount, dispatch, wire, emitted, scn>>

\* The server's socket leaves the OPEN state before its close event fires.
SocketClosing(s) ==
    /\ sock[s].readyState = "OPEN"
    /\ sock' = [sock EXCEPT ![s].readyState = "CLOSING"]
    /\ UNCHANGED <<standalone, others, pushes, sequence, eventBuffer, clients, streamingState, timers, history,
                   idCount, uuidCount, dispatch, tab, wire, emitted, scn, missed>>

\* Mutant: the user's client set is emptied.
removeClient_All(s) == {}

removeClient(s) == clients \ {s}

\* ws.on("error"): the socket fails; it leaves the OPEN state and its close
\* event is still to come.
SocketError(s) ==
    /\ sock[s].readyState \in {"OPEN", "CLOSING"}
    /\ ~sock[s].errored
    /\ sock' = [sock EXCEPT ![s].readyState = "CLOSING", ![s].errored = TRUE]
    /\ clients' = removeClient(s)
    /\ UNCHANGED <<standalone, others, pushes, sequence, eventBuffer, streamingState, timers, history,
                   idCount, uuidCount, dispatch, tab, wire, emitted, scn, missed>>

\* ws.on("close") / ws.on("error")
SocketClose(s) ==
    /\ sock[s].readyState \in {"OPEN", "CLOSING"}
    /\ sock' = [sock EXCEPT ![s].readyState = "CLOSED"]
    /\ clients' = removeClient(s)
    /\ UNCHANGED <<standalone, others, pushes, sequence, eventBuffer, streamingState, timers, history,
                   idCount, uuidCount, dispatch, tab, wire, emitted, scn, missed>>

\* An outside caller (the channel's outbound path) calls
\* pushOutboundMessage(to, text).
PushOutboundTo(to, text) ==
    LET userId == normalizeTarget(to)
    IN  IF userId = MainUser
        THEN LET S1 == pushOutboundMessage(Cur, text)
             IN  /\ Commit(S1)
                 /\ NoteMissed(S1)
                 /\ scn' = Track(Op("push", text))
                 /\ UNCHANGED <<standalone, others, clients, sock, uuidCount, dispatch, tab>>
        ELSE /\ userId \in OtherUsers
             /\ others' = [others EXCEPT ![userId] = pushOutboundMessage(@, text)]
             /\ UNCHANGED <<standalone, sequence, eventBuffer, clients, sock, streamingState,
                            timers, history, idCount, uuidCount, dispatch, tab, wire,
                            emitted, scn, missed, pushes>>

\* The outbound path hands text for the user of the modelled connections.
PushOutbound ==
    \E text \in PushTexts : PushOutboundTo(MainUser, text)

\* ws.on("message") for a resync frame on socket s.
Resync(s) ==
    LET S1 == sendHistoryAndStreaming(Cur, s)
    IN  /\ sock[s].readyState = "OPEN"
        /\ Commit(S1)
        /\ scn' = Track(Op("resync", <<>>))
        /\ UNCHANGED <<standalone, others, clients, sock, uuidCount, dispatch, tab, missed>>

\* Mutant: the user message is broadcast but not stored.
storeUserMessage_BroadcastOnly(S, text, images) ==
    LET msg == WithImages(StoredMessage("in", nextMessageId(S), text, "user"), images)
        S1  == [S EXCEPT !.idCount = @ + 1]
    IN  broadcast(S1, MessageEv(msg, 0))

\* "Store user message" with its image metadata, then "Broadcast to all tabs".
storeUserMessage(S, text, images) ==
    LET msg == WithImages(StoredMessage("in", nextMessageId(S), text, "user"), images)
        S1  == [appendMessage(S, msg) EXCEPT !.idCount = @ + 1]
    IN  broadcast(S1, MessageEv(msg, 0))

\* The same for a message without images.
storeAndBroadcastUserMessage(S, text) == storeUserMessage(S, text, 0)

\* ws.on("message") for a message frame on socket s with text raw and an
\* images array of the given length (0: none); the call of dispatchInbound
\* runs up to its first await.
ClientImageMessage(s, raw, images) ==
    LET text == Trim(raw)
        S1   == storeUserMessage(Cur, text, images)
    IN  /\ sock[s].readyState = "OPEN"
        /\ text # <<>>
        /\ \E d \in DOMAIN dispatch :
            /\ dispatch[d].st = "idle"
            /\ \A e \in 1..(d - 1) : dispatch[e].st # "idle"
            /\ dispatch' = [dispatch EXCEPT ![d].st = "running",
                                            ![d].msgSeq = sequence]
        /\ Commit(S1)
        /\ NoteMissed(S1)
        /\ scn' = Track(Op("message", text))
        /\ UNCHANGED <<standalone, others, clients, sock, uuidCount, tab>>

\* A message frame without images.
ClientMessage(s, raw) == ClientImageMessage(s, raw, 0)

\* The statement of the message handler that ends the call for frame:
\* JSON.parse throws and the catch returns; reading parsed.type of null
\* throws a TypeError outside the try; a number has no type property.
frameBranch(frame) ==
    IF frame.json = "invalid" THEN "parseError"
    ELSE IF frame.json = "null" THEN "typeError"
    ELSE IF frame.json = "object" /\ frame.type = "ping" THEN "ping"
    ELSE IF frame.json = "object" /\ frame.type = "resync" THEN "resync"
    ELSE IF frame.json = "object" /\ frame.type = "message" /\ frame.isString
    THEN IF Trim(frame.text) = <<>> THEN "blank" ELSE "message"
    ELSE "none"

Pongs(s) == Cardinality({i \in 1..Len(wire[s]) : wire[s][i].type = "pong"})

\* The pings, ignored frames and throwing frames handled so far, of the
\* sockets 1..n.
RECURSIVE FramesHandled(_)
FramesHandled(n) ==
    IF n = 0 THEN 0
    ELSE FramesHandled(n - 1) + Pongs(n) + sock[n].ignored
             + (IF sock[n].threw THEN 1 ELSE 0)

\* ws.on("message") for a ping frame on socket s.
Ping(s) ==
    LET S1 == sendPong(Cur, s)
    IN  /\ sock[s].readyState = "OPEN"
        /\ FramesHandled(MaxSockets) < MaxFrames
        /\ Commit(S1)
        /\ scn' = Track(Op("ping", <<>>))
        /\ UNCHANGED <<standalone, others, clients, sock, uuidCount, dispatch, tab, missed>>

\* ws.on("message") returns without having acted on the frame.
Ignore(s, frame) ==
    /\ sock[s].readyState = "OPEN"
    /\ FramesHandled(MaxSockets) < MaxFrames
    /\ sock' = [sock EXCEPT ![s].ignored = @ + 1,
                            ![s].lastIgnored = IF frame.type = "message" /\ frame.isString
                                               THEN frame ELSE @]
    /\ UNCHANGED <<standalone, others, pushes, sequence, eventBuffer, clients, streamingState, timers,
                   history, idCount, uuidCount, dispatch, tab, wire, emitted, scn, missed>>

\* ws.on("message") throws: the exception leaves the listener uncaught.
HandlerThrow(s) ==
    /\ sock[s].readyState = "OPEN"
    /\ ~sock[s].threw
    /\ FramesHandled(MaxSockets) < MaxFrames
    /\ sock' = [sock EXCEPT ![s].threw = TRUE]
    /\ UNCHANGED <<standalone, others, pushes, sequence, eventBuffer, clients, streamingState, timers,
                   history, idCount, uuidCount, dispatch, tab, wire, emitted, scn, missed>>

\* ws.on("message") of socket s, for any frame.
OnFrame(s, frame) ==
    LET branch == frameBranch(frame)
    IN  CASE branch = "typeError" -> HandlerThrow(s)
          [] branch = "ping"      -> Ping(s)
          [] branch = "resync"    -> Resync(s)
          [] branch = "message"   -> ClientImageMessage(s, frame.text, frame.images)
          [] OTHER                -> Ignore(s, frame)

\* Mutant: a block replaces the accumulated text instead of extending it.
deliverLocals_NoAccumulate(D, kind, chunk) ==
    IF kind = "final"
    THEN [D EXCEPT !.finalDelivered = TRUE, !.accumulatedText = @ \o chunk]
    ELSE IF kind = "block" /\ chunk # <<>>
    THEN [D EXCEPT !.accumulatedText = chunk]
    ELSE D

\* The deliver callback of dispatch d: the locals after the call.
deliverLocals(D, kind, chunk) ==
    IF kind = "final"
    THEN [D EXCEPT !.finalDelivered = TRUE, !.accumulatedText = @ \o chunk]
    ELSE IF kind = "block" /\ chunk # <<>>
    THEN [D EXCEPT !.accumulatedText = @ \o chunk]
    ELSE D

\* Mutant: final ends the streaming before it pushes the message.
deliver_EndFirst(S, D, kind, chunk) ==
    LET D1 == deliverLocals(D, kind, chunk)
    IN  IF kind = "final"
        THEN IF D1.accumulatedText # <<>>
             THEN pushOutboundMessage(endStreaming(S), D1.accumulatedText)
             ELSE endStreaming(S)
        ELSE IF kind = "block" /\ chunk # <<>>
        THEN setStreamingText(S, D1.accumulatedText)
        ELSE S

\* The deliver callback of dispatch d: the server state after the call.
deliver(S, D, kind, chunk) ==
    LET D1 == deliverLocals(D, kind, chunk)
    IN  IF kind = "final"
        THEN endStreaming(IF D1.accumulatedText # <<>>
                          THEN pushOutboundMessage(S, D1.accumulatedText)
                          ELSE S)
        ELSE IF kind = "block" /\ chunk # <<>>
        THEN setStreamingText(S, D1.accumulatedText)
        ELSE S

\* Bookkeeping only: the chunk joins the record of what was delivered.
logChunk(D, kind, chunk) ==
    IF kind = "block" /\ chunk # <<>>
    THEN [D EXCEPT !.chunks = Append(@, chunk), !.lastStreaming = D.accumulatedText]
    ELSE IF kind = "final" /\ chunk # <<>>
    THEN [D EXCEPT !.chunks = Append(@, chunk)]
    ELSE D

\* The runtime calls deliver(payload, info) of dispatch d.
Deliver(d) ==
    \E dl \in Deliveries :
        LET S1 == deliver(Cur, dispatch[d], dl[1], dl[2])
        IN  /\ dispatch[d].st = "running"
            /\ Commit(S1)
            /\ NoteMissed(S1)
            /\ dispatch' = [dispatch EXCEPT ![d] =
                              logChunk(deliverLocals(dispatch[d], dl[1], dl[2]), dl[1], dl[2])]
            /\ scn' = IF S1 = Cur THEN scn ELSE Track(Op(dl[1], dl[2]))
            /\ UNCHANGED <<standalone, others, clients, sock, uuidCount, tab>>

\* Mutant: the flush does not look at finalDelivered.
safetyFlush_IgnoreFinal(S, D) ==
    IF D.accumulatedText # <<>>
    THEN endStreaming(pushOutboundMessage(S, D.accumulatedText))
    ELSE S

\* "Safety: if deliver(final) was never called, push what we have".
safetyFlush(S, D) ==
    IF ~D.finalDelivered /\ D.accumulatedText # <<>>
    THEN endStreaming(pushOutboundMessage(S, D.accumulatedText))
    ELSE S

\* The runtime's dispatch promise resolves and dispatchInbound runs to its end.
DispatchReturn(d) ==
    LET S1 == safetyFlush(Cur, dispatch[d])
    IN  /\ dispatch[d].st = "running"
        /\ Commit(S1)
        /\ NoteMissed(S1)
        /\ dispatch' = [dispatch EXCEPT ![d].st = "done"]
        /\ scn' = Track(Op("return", <<>>))
        /\ UNCHANGED <<standalone, others, clients, sock, uuidCount, tab>>

\* The runtime's dispatch promise rejects: the await throws, dispatchInbound
\* ends there and the caller's .catch logs.
DispatchThrow(d) ==
    /\ dispatch[d].st = "running"
    /\ dispatch' = [dispatch EXCEPT ![d].st = "failed"]
    /\ scn' = Track(Op("throw", <<>>))
    /\ UNCHANGED <<standalone, others, pushes, sequence, eventBuffer, clients, sock, streamingState, timers,
                   history, idCount, uuidCount, tab, wire, emitted, missed>>

\* STREAMING_TIMEOUT_MS passed since the handle was armed.
TimerFire(timer) ==
    LET S1 == streamingTimeout(Cur, timer)
    IN  /\ timer \in timers
        /\ Commit(S1)
        /\ NoteMissed(S1)
        /\ scn' = Track(Op("timeout", <<>>))
        /\ UNCHANGED <<standalone, others, clients, sock, uuidCount, dispatch, tab>>

\* The promise of the oldest pending push notification of the user settles:
\* it resolves, or it rejects and .catch(() => {}) swallows the rejection.
PushSettle(ok) ==
    /\ \E i \in 1..Len(pushes) :
          /\ pushes[i].st = "pending"
          /\ \A j \in 1..(i - 1) : pushes[j].st # "pending"
          /\ pushes' = [pushes EXCEPT ![i].st = IF ok THEN "sent" ELSE "failed"]
    /\ UNCHANGED <<standalone, others, sequence, eventBuffer, clients, sock, streamingState,
                   timers, history, idCount, uuidCount, dispatch, tab, wire,
                   emitted, scn, missed>>

\* The first connection of a fresh user: a plain upgrade request.
ConnectFirst ==
    /\ uuidCount = 0
    /\ \E s \in Sockets : Accept(s, 0, NoConnId, Absent)
    /\ UNCHANGED tab

\* A plain upgrade request, from any number of tabs of the user.
ConnectPlain ==
    /\ \E s \in Sockets : Accept(s, 0, NoConnId, Absent)
    /\ UNCHANGED tab

\* checkAuth(req, cfg) is called for the request at hand.
CheckAuth ==
    /\ request.verdict = "none"
    /\ request' = [request EXCEPT !.verdict = IF checkAuth(request) THEN "accept" ELSE "reject"]
    /\ UNCHANGED <<relay, httpVars, storeVars, subsVars>>

\* The next request arrives: it differs from the last in one header, in
\* the address, or in the configured token.
NextRequest ==
    /\ request.verdict # "none"
    /\ LET req == [request EXCEPT !.verdict = "none"]
       IN  \/ \E v \in ProxyHeaderValues : request' = [req EXCEPT !.tailscale = v]
           \/ \E v \in RemoteAddresses : request' = [req EXCEPT !.remote = v]
           \/ \E v \in TokenValues : request' = [req EXCEPT !.token = v]
           \/ \E v \in AuthorizationValues : request' = [req EXCEPT !.authorization = v]
           \/ \E v \in SecretValues : request' = [req EXCEPT !.xToken = v]
           \/ \E v \in SecretValues : request' = [req EXCEPT !.queryToken = v]
    /\ UNCHANGED <<relay, httpVars, storeVars, subsVars>>

\* An upgrade request for path arrives with the headers of request.
OnUpgrade(path) ==
    LET out == upgradeOutcome(path, request)
    IN  IF out = "upgrade"
        THEN ConnectPlain
        ELSE /\ response' = Response(IF out = "401" THEN 401 ELSE 0, Absent, request, TRUE)
             /\ UNCHANGED <<relay, authVars, storeVars, subsVars>>

\* A GET request for path arrives with the headers of request.
HttpRequest(path) ==
    /\ response' = httpResponse(path, request)
    /\ UNCHANGED <<relay, authVars, storeVars, subsVars>>

\* The requester sends the token it read in the last response as the
\* token parameter of its next request.
PresentToken ==
    /\ response.token.present
    /\ request' = [request EXCEPT !.queryToken = response.token, !.verdict = "none"]
    /\ UNCHANGED <<relay, storeVars, subsVars, httpVars>>

\* readHistory(userId) is called.
ReadHistory(userId) ==
    /\ ret' = Ret("readHistory", userId, readHistoryFile(files, userId), FALSE, FALSE)
    /\ UNCHANGED <<relay, httpVars, authVars, subsVars, files>>

\* appendMessage(userId, msg) is called.
AppendMessage(userId, msg) ==
    LET out == appendMessageFile(files, userId, msg)
    IN  /\ files' = out.files
        /\ ret' = Ret("appendMessage", userId, Missing, FALSE, out.threw)
        /\ UNCHANGED <<relay, httpVars, authVars, subsVars>>

\* deleteSession(sessionId, baseUserId) is called.
DeleteSession(sessionId, baseUserId) ==
    LET out == deleteSession(files, sessionId, baseUserId)
    IN  /\ files' = out.files
        /\ ret' = Ret("deleteSession", UserKeyOf(baseUserId, sessionId), Missing, out.ok, FALSE)
        /\ UNCHANGED <<relay, httpVars, authVars, subsVars>>

\* Something other than the plugin leaves content of its own in a file.
WriteOutside(f, content) ==
    /\ files' = [files EXCEPT ![f] = content]
    /\ ret' = NoRet
    /\ UNCHANGED <<relay, httpVars, authVars, subsVars>>

\* addSubscription(userId, sub) is called (POST /api/push/subscribe).
AddSubscription(userId, sub) ==
    /\ subscriptions' = addSubscription(subscriptions, userId, sub)
    /\ UNCHANGED <<relay, httpVars, authVars, storeVars, sending>>

\* removeSubscription(userId, endpoint) is called (POST /api/push/unsubscribe).
RemoveSubscription(userId, endpoint) ==
    /\ subscriptions' = removeSubscription(subscriptions, userId, endpoint)
    /\ UNCHANGED <<relay, httpVars, authVars, storeVars, sending>>

\* sendPushNotification(userId, ...) up to its await: the store is read
\* once; without subscriptions the call returns.
SendStart(userId) ==
    /\ sending.st # "flight"
    /\ sending' = IF subscriptions[userId] = <<>>
                  THEN [NoSend EXCEPT !.st = "settled", !.userId = userId]
                  ELSE [NoSend EXCEPT !.st = "flight", !.userId = userId,
                                      !.subs = subscriptions[userId]]
    /\ UNCHANGED <<relay, httpVars, authVars, storeVars, subscriptions>>

\* Promise.allSettled resolves, the send of subs[i] having ended with
\* outcome[i], and the expired endpoints are removed one by one.
SendSettle(outcome) ==
    /\ sending.st = "flight"
    /\ LET expired == expiredOf(sending.subs, outcome)
           store == cleanUp(subscriptions, sending.userId, expired)
           left == store[sending.userId]
       IN  /\ subscriptions' = store
           /\ sending' = [sending EXCEPT
                    !.st = "settled",
                    !.subs = <<>>,
                    !.outcome = outcome,
                    !.fresh = \E i \in 1..Len(left) :
                                \A j \in 1..Len(sending.subs) : left[i] # sending.subs[j]]
    /\ UNCHANGED <<relay, httpVars, authVars, storeVars>>

\* Exploration stops where the sequence counter would pass cap.
Within(cap) == sequence' <= cap

\* The relay under hand-made connections: any url parameters, any order of
\* the server's handlers.
Next ==
    \/ ConnectRaw /\ Within(MaxSeq)
    \/ \E s \in Sockets : SocketClose(s)
    \/ PushOutbound /\ Within(MaxSeq)
    \/ \E s \in Sockets : Resync(s) /\ Within(MaxSeq)
    \/ \E s \in Sockets, raw \in ClientTexts : ClientMessage(s, raw) /\ Within(MaxSeq)
    \/ \E d \in Dispatches : Deliver(d) /\ Within(MaxSeq)
    \/ \E d \in Dispatches : DispatchReturn(d) /\ Within(MaxSeq)
    \/ \E d \in Dispatches : DispatchThrow(d)
    \/ \E timer \in timers : TimerFire(timer) /\ Within(MaxSeq)

Spec == Init /\ [][Next]_vars

\* The relay with browser tabs that follow useWebSocket.
NextClient ==
    \/ \E t \in Tabs : Connect(t) /\ Within(MaxSeq)
    \/ \E t \in Tabs : ClientReceive(t)
    \/ \E t \in Tabs : ClientOnClose(t)
    \/ \E s \in Sockets : SocketClosing(s)
    \/ \E s \in Sockets : SocketClose(s)
    \/ PushOutbound /\ Within(MaxSeq)
    \/ \E s \in Sockets, raw \in ClientTexts : ClientMessage(s, raw) /\ Within(MaxSeq)

SpecClient == Init /\ [][NextClient]_vars

\* One connection and the replies to its messages, explored further than
\* MaxSeq: to the end of Scenario and of a reply cut by the inactivity timer.
ReplyMaxSeq == MaxSeq + 3

NextReply ==
    \/ ConnectFirst /\ Within(ReplyMaxSeq)
    \/ \E s \in Sockets : SocketClose(s)
    \/ \E s \in Sockets, raw \in ClientTexts : ClientMessage(s, raw) /\ Within(ReplyMaxSeq)
    \/ \E d \in Dispatches : Deliver(d) /\ Within(ReplyMaxSeq)
    \/ \E d \in Dispatches : DispatchReturn(d) /\ Within(ReplyMaxSeq)
    \/ \E d \in Dispatches : DispatchThrow(d)
    \/ \E timer \in timers : TimerFire(timer) /\ Within(ReplyMaxSeq)

SpecReply == Init /\ [][NextReply]_vars

\* One connection and the replies to its messages, with the timers of Node:
\* a handle that stays armed is called back once its delay has passed.
\* Only the other steps stop at MaxSeq, so that a timer armed by the last
\* of them can still fire.
NextTimer ==
    \/ ConnectFirst /\ Within(MaxSeq)
    \/ \E s \in Sockets : SocketClose(s)
    \/ \E s \in Sockets, raw \in ClientTexts : ClientMessage(s, raw) /\ Within(MaxSeq)
    \/ \E d \in Dispatches : Deliver(d) /\ Within(MaxSeq)
    \/ \E d \in Dispatches : DispatchReturn(d) /\ Within(MaxSeq)
    \/ \E d \in Dispatches : DispatchThrow(d)
    \/ \E timer \in timers : TimerFire(timer)

SpecTimer ==
    Init /\ [][NextTimer]_vars /\ WF_vars(\E timer \in timers : TimerFire(timer))

\* The outbound path alone: pushOutboundMessage for any target, with one
\* connection of MainUser that comes and goes. The counter of MainUser stops
\* at MaxSeq, that of every other user at PushMaxSeq.
PushMaxSeq == MAX_HISTORY

PushBodies == {Ok, HelloText}

WithinAll(cap, otherCap) ==
    /\ sequence' <= cap
    /\ \A u \in OtherUsers : others'[u].sequence <= otherCap

NextPush ==
    \/ ConnectFirst /\ Within(MaxSeq)
    \/ \E s \in Sockets : SocketClosing(s)
    \/ \E s \in Sockets : SocketClose(s)
    \/ \E to \in PushTargets, text \in PushBodies :
          PushOutboundTo(to, text) /\ WithinAll(MaxSeq, PushMaxSeq)
    \/ \E ok \in BOOLEAN : PushSettle(ok)

SpecPush == Init /\ [][NextPush]_vars

\* The message handler under every kind of frame, with replies under way.
NextFrames ==
    \/ ConnectPlain /\ Within(MaxSeq)
    \/ \E s \in Sockets : SocketClose(s)
    \/ \E s \in Sockets, frame \in Frames : OnFrame(s, frame) /\ Within(MaxSeq)
    \/ \E d \in Dispatches : Deliver(d) /\ Within(MaxSeq)
    \/ \E d \in Dispatches : DispatchReturn(d) /\ Within(MaxSeq)

SpecFrames == Init /\ [][NextFrames]_vars

\* One connection, its message events and the replies to them, explored
\* to the end of a reply that streams one block.
MessagesMaxSeq == MaxSeq + 1

NextMessages ==
    \/ ConnectFirst /\ Within(MessagesMaxSeq)
    \/ \E s \in Sockets : SocketClose(s)
    \/ \E s \in Sockets, frame \in MessageFrames : OnFrame(s, frame) /\ Within(MessagesMaxSeq)
    \/ \E d \in Dispatches : Deliver(d) /\ Within(MessagesMaxSeq)
    \/ \E d \in Dispatches : DispatchReturn(d) /\ Within(MessagesMaxSeq)

SpecMessages == Init /\ [][NextMessages]_vars

\* Resync requests from the tabs of the user, with a reply streaming.
NextResync ==
    \/ ConnectPlain /\ Within(ReplyMaxSeq)
    \/ \E s \in Sockets : Resync(s) /\ Within(ReplyMaxSeq)
    \/ \E s \in Sockets, raw \in ClientTexts : ClientMessage(s, raw) /\ Within(ReplyMaxSeq)
    \/ \E d \in Dispatches : Deliver(d) /\ Within(ReplyMaxSeq)

SpecResync == Init /\ [][NextResync]_vars

\* checkAuth on its own, for every request of Requests.
InitAuth ==
    /\ InitRelay
    /\ InitStore
    /\ InitSubs
    /\ InitHttp
    /\ request \in Requests

NextAuth ==
    \/ CheckAuth
    \/ NextRequest

SpecAuth == InitAuth /\ [][NextAuth]_vars

\* The message store on its own, over files the plugin wrote and files
\* with foreign content.
NextStore ==
    \/ \E u \in StoreUsers : ReadHistory(u)
    \/ \E u \in StoreUsers, msg \in StoreMessages : AppendMessage(u, msg)
    \/ \E sid \in SessionIds, b \in BaseUserIds : DeleteSession(sid, b)
    \/ \E f \in FileNames, content \in ForeignContents : WriteOutside(f, content)

SpecStore == Init /\ [][NextStore]_vars

\* The subscription store, with one sendPushNotification call at a time
\* and subscribe and unsubscribe requests arriving at any moment.
NextSubs ==
    \/ \E u \in SubUsers : \E sub \in SubscriptionsOf(u) : AddSubscription(u, sub)
    \/ \E u \in SubUsers, e \in Endpoints : RemoveSubscription(u, e)
    \/ \E u \in SubUsers : SendStart(u)
    \/ \E outcome \in [1..Len(sending.subs) -> Statuses] : SendSettle(outcome)

SpecSubs == Init /\ [][NextSubs]_vars

\* The requesters of the HTTP server carry their secret, if any, in the
\* token parameter, as the client of this repository does.
TokenParameterOnly(req) ==
    /\ req.authorization = Absent
    /\ req.xToken = Absent
    /\ req.tailscale # Param(<<>>)
    /\ req.token # Param(<<>>)
    /\ req.remote \in {"", "127.0.0.1", "203.0.113.1"}

\* ws.on("message") for a message frame while fs.writeFileSync throws in
\* appendMessage: the id is taken, the exception leaves the listener, and
\* the statements after appendMessage (broadcast, dispatch) are not reached.
ClientMessageWriteFails(s, raw) ==
    /\ sock[s].readyState = "OPEN"
    /\ Trim(raw) # <<>>
    /\ idCount < MaxSeq
    /\ idCount' = idCount + 1
    /\ sock' = [sock EXCEPT ![s].threw = TRUE]
    /\ UNCHANGED <<standalone, others, pushes, sequence, eventBuffer, clients, streamingState,
                   timers, history, uuidCount, dispatch, tab, wire, emitted, scn, missed>>

\* pushOutboundMessage(to, text) while fs.writeFileSync throws in
\* appendMessage: the id is taken and the exception goes to the caller; the
\* broadcast and the push notification after it are not reached.
PushOutboundWriteFails(to) ==
    LET userId == normalizeTarget(to)
    IN  IF userId = MainUser
        THEN /\ idCount < MaxSeq
             /\ idCount' = idCount + 1
             /\ UNCHANGED <<standalone, others, pushes, sequence, eventBuffer, clients, sock,
                            streamingState, timers, history, uuidCount, dispatch, tab, wire,
                            emitted, scn, missed>>
        ELSE /\ userId \in OtherUsers
             /\ others[userId].idCount < MaxSeq
             /\ others' = [others EXCEPT ![userId].idCount = @ + 1]
             /\ UNCHANGED <<standalone, sequence, eventBuffer, clients, sock, streamingState,
                            timers, history, idCount, uuidCount, dispatch, tab, wire,
                            emitted, scn, missed, pushes>>

\* Client messages and outbound messages of two users whose history write
\* succeeds or fails.
NextWriteFail ==
    \/ ConnectPlain /\ Within(MaxSeq)
    \/ \E s \in Sockets : SocketClose(s)
    \/ \E s \in Sockets : ClientMessage(s, Hi) /\ Within(MaxSeq)
    \/ \E s \in Sockets : ClientMessageWriteFails(s, Hi)
    \/ \E to \in PushTargets : PushOutboundTo(to, Ok) /\ WithinAll(MaxSeq, PushMaxSeq)
    \/ \E to \in PushTargets : PushOutboundWriteFails(to)

SpecWriteFail == Init /\ [][NextWriteFail]_vars

\* The connection under socket s fails: from now on writes to it fail.
SocketFail(s) ==
    /\ sock[s].readyState = "OPEN"
    /\ ~sock[s].failing
    /\ sock' = [sock EXCEPT ![s].failing = TRUE]
    /\ UNCHANGED <<standalone, others, pushes, sequence, eventBuffer, clients, streamingState,
                   timers, history, idCount, uuidCount, dispatch, tab, wire, emitted, scn,
                   missed>>

\* Broadcasts to connections some of which fail, before and after the error
\* and close events of the failed ones.
NextSendFail ==
    \/ ConnectPlain /\ Within(MaxSeq)
    \/ \E s \in Sockets : SocketFail(s)
    \/ \E s \in Sockets : sock[s].failing /\ SocketError(s)
    \/ \E s \in Sockets : SocketClose(s)
    \/ PushOutbound /\ Within(MaxSeq)

SpecSendFail == Init /\ [][NextSendFail]_vars

\* Two messages of one connection whose replies the runtime delivers at
\* the same time, block by block, in any interleaving.
ConcurrentDispatches == 1..(MaxDispatch + 1)

InitConcurrent ==
    /\ InitRelayWith(ConcurrentDispatches)
    /\ InitStore
    /\ InitSubs
    /\ InitHttp
    /\ request = NoRequest

NextConcurrent ==
    \/ ConnectFirst /\ Within(ReplyMaxSeq)
    \/ \E s \in Sockets : ClientMessage(s, Hi) /\ Within(ReplyMaxSeq)
    \/ \E d \in DOMAIN dispatch : Deliver(d) /\ Within(ReplyMaxSeq)
    \/ \E d \in DOMAIN dispatch : DispatchReturn(d) /\ Within(ReplyMaxSeq)
    \/ \E timer \in timers : TimerFire(timer) /\ Within(ReplyMaxSeq)

SpecConcurrent == InitConcurrent /\ [][NextConcurrent]_vars

\* Connections that end by close, or by error and then close, while
\* messages are pushed to the user.
NextClose ==
    \/ ConnectPlain /\ Within(MaxSeq)
    \/ \E s \in Sockets : SocketClosing(s)
    \/ \E s \in Sockets : SocketError(s)
    \/ \E s \in Sockets : SocketClose(s)
    \/ PushOutbound /\ Within(MaxSeq)

SpecClose == Init /\ [][NextClose]_vars

\* The HTTP server: upgrade and GET requests of requesters of every
\* kind, and the close of accepted sockets.
NextHttp ==
    \/ \E path \in UpgradePaths : OnUpgrade(path) /\ Within(MaxSeq)
    \/ \E path \in HttpPaths : HttpRequest(path)
    \/ PresentToken
    \/ CheckAuth
    \/ NextRequest /\ TokenParameterOnly(request')
    \/ \E s \in Sockets : SocketClose(s)

SpecHttp == Init /\ [][NextHttp]_vars

\* ====================================================================
\* Claims
\* ====================================================================
EventTypes(evs) == {evs[i].type : i \in 1..Len(evs)}

\* C1: the seq-bearing events created for the user carry 0, 1, 2, ... in
\* the order they are created (hello, history, message, streaming and
\* streaming_end alike): the i-th event created carries seq i - 1, so no
\* value is skipped or given twice, and the counter is the number created.
C1_SeqIsEmissionIndex ==
    /\ \A i \in 1..Len(emitted) : emitted[i].seq = i - 1
    /\ sequence = Len(emitted)

\* C1 witness: all five kinds of seq-bearing event have been created, one of
\* them by a connection that was granted catch-up.
C1_Witness ==
    /\ EventTypes(emitted) =
           {"hello", "history", "message", "streaming", "streaming_end"}
    /\ \E s \in Sockets : sock[s].readyState # "NONE" /\ ~sock[s].shouldResync

\* C2: no client is sent a seq-bearing event that skips over a seq it was
\* not sent. On a connection that began with a full sync every frame comes
\* from the connection's own hello, history and streaming, from its resyncs
\* or from a broadcast, so each seq-bearing frame carries the seq of the
\* frame before it plus 1, also while other clients connect or resync.
C2_NoSkippedSeq ==
    \A s \in Sockets :
        sock[s].shouldResync =>
            \A i \in 1..(Len(wire[s]) - 1) : wire[s][i + 1].seq = wire[s][i].seq + 1

\* C5: on every connection the seq-bearing frames are written in strictly
\* increasing seq order starting with hello; in a catch-up the hello carries
\* the lowest seq of the connection.
C5_StrictlyIncreasingPerSocket ==
    \A s \in Sockets :
        \A i, j \in 1..Len(wire[s]) : i < j => wire[s][i].seq < wire[s][j].seq

BufferSeqs == [i \in 1..Len(eventBuffer) |-> eventBuffer[i].seq]

\* C7 as claimed: the buffered seqs are the contiguous run that ends at
\* sequence - 1, so the smallest is max(0, sequence - len(buffer)).
C7_BufferIsContiguousSuffix ==
    \A i \in 1..Len(eventBuffer) :
        eventBuffer[i].seq = sequence - Len(eventBuffer) + i - 1

NonHello == SelectSeq(emitted, LAMBDA e : e.type # "hello")

Min(a, b) == IF a < b THEN a ELSE b

Max(a, b) == IF a > b THEN a ELSE b

\* C7 amended: the buffer holds, in creation order, exactly the most recent
\* min(EVENT_BUFFER_SIZE, n) of the n seq-bearing events other than hello;
\* a hello consumes a seq and is never buffered, so the smallest buffered
\* seq is at most sequence - len(buffer), not equal to it.
C7_BufferIsRecentNonHello ==
    LET n == Len(NonHello)
        k == Min(n, EVENT_BUFFER_SIZE)
    IN  /\ Len(eventBuffer) = k
        /\ \A i \in 1..k :
              /\ eventBuffer[i].msg = NonHello[n - k + i]
              /\ eventBuffer[i].seq = eventBuffer[i].msg.seq
        /\ k > 0 => eventBuffer[1].seq <= sequence - k

\* C7 witness: a full buffer that has evicted an event and has a hello's seq
\* missing between two buffered events.
C7_Witness ==
    /\ Len(eventBuffer) = EVENT_BUFFER_SIZE
    /\ Len(NonHello) > EVENT_BUFFER_SIZE
    /\ \E i \in 1..(Len(eventBuffer) - 1) :
          eventBuffer[i + 1].seq > eventBuffer[i].seq + 1

\* The entries appended in the step: those with a seq not yet handed out.
AppendedCount ==
    Cardinality({i \in 1..Len(eventBuffer') : eventBuffer'[i].seq >= sequence})

\* C8: the buffer never holds more than EVENT_BUFFER_SIZE entries and is
\* strictly ascending by seq; a step that appends j entries removes exactly
\* the max(0, len + j - EVENT_BUFFER_SIZE) entries with the smallest seqs
\* and no other.
C8_BoundedSortedEvictOldest ==
    /\ [](/\ Len(eventBuffer) <= EVENT_BUFFER_SIZE
          /\ \A i \in 1..(Len(eventBuffer) - 1) :
                eventBuffer[i].seq < eventBuffer[i + 1].seq)
    /\ [][LET j == AppendedCount
              k == Max(0, Len(eventBuffer) + j - EVENT_BUFFER_SIZE)
          IN  /\ Len(eventBuffer') = Len(eventBuffer) + j - k
              /\ SubSeq(eventBuffer', 1, Len(eventBuffer') - j) =
                     SubSeq(eventBuffer, k + 1, Len(eventBuffer))]_vars

\* C8 witness: the buffer is full and its oldest entries were evicted.
C8_Witness ==
    /\ Len(eventBuffer) = EVENT_BUFFER_SIZE
    /\ \E i \in 1..Len(emitted) :
          /\ emitted[i].type # "hello"
          /\ \A b \in 1..Len(eventBuffer) : eventBuffer[b].seq # emitted[i].seq

\* The step accepts socket s.
AcceptedIn(s) == sock[s].readyState = "NONE" /\ sock'[s].readyState # "NONE"

\* The frames of a full sync, from the state before the connection.
FullSyncFrames ==
    <<HelloEv(uuidCount + 1, sequence), HistoryEv(history, sequence + 1)>>
        \o (IF streamingState.has
            THEN <<StreamingEv(streamingState.text, sequence + 2)>> ELSE <<>>)

\* The frames of a catch-up from v with the adopted connectionId cid.
CatchUpFrames(cid, v) ==
    LET sel == SelectSeq(eventBuffer, LAMBDA e : e.seq >= v)
    IN  <<HelloEv(cid, sequence)>> \o [i \in 1..Len(sel) |-> sel[i].msg]

\* What the step must do to the accepted socket s, given whether the request
\* is to be granted catch-up.
ConnectOutcome(s, catchUp) ==
    LET cid == sock'[s].connection_id
        n   == incomingSeqOf(sock'[s].sequence_number)
    IN  IF catchUp
        THEN /\ sock'[s].connectionId = cid
             /\ wire'[s] = CatchUpFrames(cid, n.val)
        ELSE /\ sock'[s].connectionId = uuidCount + 1
             /\ sock'[s].connectionId # cid
             /\ wire'[s] = FullSyncFrames
             /\ emitted' = emitted \o FullSyncFrames

MismatchFrame(t) == wire[tab[t].ws][tab[t].rcv]

\* C4: a tab that follows useWebSocket and is granted a catch-up applies
\* every replayed event: it never finds a seq mismatch on a frame replayed
\* from the buffer (a frame with a seq below the connection's hello).
C4_CatchUpReplayApplied ==
    \A t \in Tabs :
        (tab[t].ws # 0 /\ tab[t].closing /\ ~sock[tab[t].ws].shouldResync) =>
            MismatchFrame(t).seq >= wire[tab[t].ws][1].seq

\* Message m is carried by a frame written to socket s.
Carried(s, m) ==
    \E i \in 1..Len(wire[s]) :
        \/ wire[s][i].type = "message" /\ wire[s][i].msg = m
        \/ /\ wire[s][i].type = "history"
           /\ \E k \in 1..Len(wire[s][i].messages) : wire[s][i].messages[k] = m

Stored(m) == \E k \in 1..Len(history) : history[k] = m

\* C6: every message persisted and broadcast while a tab had no socket is
\* written to the tab's next connection, as a replayed message event or
\* inside a history event, as long as it is among the MAX_HISTORY stored
\* messages.
C6_MissedMessagesReach ==
    \A t \in Tabs :
        tab[t].ws # 0 =>
            \A m \in missed[t] : Stored(m) => Carried(tab[t].ws, m)

\* C6 witness: a tab that had processed its first connection, lost it and
\* missed a stored message is connected again and was granted a catch-up.
C6_Witness ==
    \E t \in Tabs :
        /\ tab[t].ws # 0
        /\ ~sock[tab[t].ws].shouldResync
        /\ \E m \in missed[t] : Stored(m) /\ m.role = "assistant"
        /\ \E m \in missed[t] : Stored(m) /\ m.role = "user"

\* Event e is a message event for a stored message of this role and text.
IsMessage(e, role, text) ==
    e.type = "message" /\ e.msg.role = role /\ e.msg.text = text

\* The end of the stored history is <<user "hi", assistant "hello">>.
HistoryEndsHiHello ==
    /\ Len(history) >= 2
    /\ LET u == history[Len(history) - 1]
           a == history[Len(history)]
       IN  /\ u.role = "user" /\ u.text = Hi
           /\ a.role = "assistant" /\ a.text = HelloText

\* C9: from a fresh user, the first connection is sent hello seq 0 then
\* history seq 1 (sequence = 2, buffer = [history@1], history empty); after
\* the client message "hi" answered by block "hel", block "lo", final, the
\* events created are message(user "hi") 2, streaming "hel" 3, streaming
\* "hello" 4, message(assistant "hello") 5, streaming_end 6, in this order,
\* and the stored history ends with user "hi", assistant "hello".
C9_Scenario ==
    /\ scn = 1 =>
          /\ emitted = <<HelloEv(1, 0), HistoryEv(<<>>, 1)>>
          /\ \E s \in Sockets : wire[s] = emitted
          /\ sequence = 2
          /\ eventBuffer = <<[seq |-> 1, msg |-> HistoryEv(<<>>, 1)]>>
          /\ history = <<>>
    /\ scn = Len(Scenario) =>
          /\ Len(emitted) = 7
          /\ SubSeq(emitted, 1, 2) = <<HelloEv(1, 0), HistoryEv(<<>>, 1)>>
          /\ IsMessage(emitted[3], "user", Hi) /\ emitted[3].seq = 2
          /\ emitted[4] = StreamingEv(Hel, 3)
          /\ emitted[5] = StreamingEv(HelloText, 4)
          /\ IsMessage(emitted[6], "assistant", HelloText) /\ emitted[6].seq = 5
          /\ emitted[7] = StreamingEndEv(6)
          /\ sequence = 7
          /\ HistoryEndsHiHello

\* C9 witness: the scenario ran to its end and the socket of the first
\* connection, still open, was sent all seven events.
C9_Witness ==
    /\ scn = Len(Scenario)
    /\ \E s \in Sockets : sock[s].readyState = "OPEN" /\ Len(wire[s]) = 7

\* A later event j is the first message or streaming event after event i.
NextAfter(i, j) ==
    /\ i < j
    /\ \A k \in (i + 1)..(j - 1) : emitted[k].type \notin {"message", "streaming"}

\* C10 as claimed: for a reply that ended with a final delivery and non-empty
\* text, no streaming_end is created between the reply's last streaming
\* event and its message event, whatever the inactivity timer does.
C10_NoEndBeforeFinalMessage ==
    (\E d \in Dispatches : dispatch[d].finalDelivered) =>
        \A i, j \in 1..Len(emitted) :
            ( /\ emitted[i].type = "streaming"
              /\ emitted[j].type = "message" /\ emitted[j].msg.role = "assistant"
              /\ NextAfter(i, j) ) =>
                \A k \in (i + 1)..(j - 1) : emitted[k].type # "streaming_end"

\* C10 amended: the first final delivery of a reply, when the accumulated
\* text is not empty, creates exactly two events: the assistant message with
\* that text and, with the next seq, a streaming_end. (A streaming_end
\* created earlier by the inactivity timer may precede the message.)
C10_FinalMessageThenEnd ==
    [][\A d \in Dispatches :
          ( /\ ~dispatch[d].finalDelivered
            /\ dispatch'[d].finalDelivered
            /\ dispatch'[d].accumulatedText # <<>> ) =>
              /\ Len(emitted') = Len(emitted) + 2
              /\ SubSeq(emitted', 1, Len(emitted)) = emitted
              /\ IsMessage(emitted'[Len(emitted) + 1], "assistant",
                           dispatch'[d].accumulatedText)
              /\ emitted'[Len(emitted) + 2] =
                     StreamingEndEv(emitted'[Len(emitted) + 1].seq + 1)]_vars

\* C10 witness: a final delivery created the message and the streaming_end
\* after the inactivity timer had ended the streaming of the same reply.
C10_Witness ==
    /\ \E d \in Dispatches : dispatch[d].finalDelivered
    /\ \E j \in 3..(Len(emitted) - 1) :
          /\ emitted[j - 2].type = "streaming"
          /\ emitted[j - 1].type = "streaming_end"
          /\ emitted[j].type = "message" /\ emitted[j].msg.role = "assistant"
          /\ emitted[j + 1].type = "streaming_end"

StreamingTrail ==
    SelectSeq(emitted, LAMBDA e : e.type \in {"streaming", "streaming_end"})

\* C12: the user has at most one armed inactivity timer, a timer is armed
\* exactly when a streaming state exists (and it is that state's handle),
\* and the stored text is the text of the most recent setStreamingText:
\* the last streaming event created carries it and no streaming_end
\* follows that event.
C12_OneStreamingStateOneTimer ==
    /\ Cardinality(timers) <= 1
    /\ streamingState.has <=> timers # {}
    /\ streamingState.has => timers = {streamingState.timer}
    /\ LET trail == StreamingTrail
       IN  IF streamingState.has
           THEN /\ trail # <<>>
                /\ trail[Len(trail)].type = "streaming"
                /\ trail[Len(trail)].text = streamingState.text
           ELSE trail # <<>> => trail[Len(trail)].type = "streaming_end"

\* C12 witness: the second setStreamingText of a reply replaced the state
\* and the timer of the first.
C12_Witness ==
    /\ streamingState.has /\ streamingState.text = HelloText
    /\ timers = {streamingState.timer}
    /\ Len(StreamingTrail) >= 2
    /\ StreamingTrail[Len(StreamingTrail) - 1] .text = Hel

\* The concatenation of a sequence of texts.
RECURSIVE Concat(_)
Concat(texts) == IF texts = <<>> THEN <<>> ELSE Head(texts) \o Concat(Tail(texts))

\* The relay's state for the user is left as it is by the step.
ServerUnchanged ==
    UNCHANGED <<pushes, sequence, eventBuffer, history, idCount, clients, streamingState,
                timers, wire, emitted>>

\* C13: when the runtime's dispatch returns normally after at least one
\* non-empty block and no final, the step stores and broadcasts exactly one
\* assistant message whose text is the concatenation of the delivered chunks,
\* then streaming_end, and clears the streaming state; after a final, or
\* with nothing accumulated, the step changes nothing of the relay's state.
C13_SafetyFlush ==
    [][\A d \in Dispatches : DispatchReturn(d) =>
          LET D   == dispatch[d]
              msg == StoredMessage("out", idCount + 1, Concat(D.chunks), "assistant")
          IN  IF ~D.finalDelivered /\ D.chunks # <<>>
              THEN /\ emitted' = emitted \o <<MessageEv(msg, sequence),
                                              StreamingEndEv(sequence + 1)>>
                   /\ history' = DropToMax(Append(history, msg))
                   /\ streamingState' = NoStreaming
                   /\ timers' = {}
              ELSE ServerUnchanged]_vars

\* C13 witness: a dispatch that delivered the blocks "hel" and "lo" and no
\* final has returned, and the flush's message and streaming_end are the
\* last events created.
C13_Witness ==
    /\ \E d \in Dispatches :
          /\ dispatch[d].st = "done" /\ ~dispatch[d].finalDelivered
          /\ dispatch[d].chunks = <<Hel, Lo>>
    /\ Len(emitted) >= 2
    /\ IsMessage(emitted[Len(emitted) - 1], "assistant", HelloText)
    /\ emitted[Len(emitted)].type = "streaming_end"
    /\ history[Len(history)].text = HelloText

\* C14: when the runtime's dispatch throws or rejects after at least one
\* non-empty block and no final, the safety flush still runs: the
\* accumulated text has been stored and broadcast as an assistant message
\* (and endStreaming was called) once the dispatch has failed.
C14_FlushAfterThrow ==
    \A d \in Dispatches :
        ( /\ dispatch[d].st = "failed"
          /\ ~dispatch[d].finalDelivered
          /\ dispatch[d].chunks # <<>> ) =>
            \E i \in 1..Len(emitted) :
                IsMessage(emitted[i], "assistant", Concat(dispatch[d].chunks))

\* The step is a deliver call of dispatch d that broadcast a streaming event.
StreamingStep(d) ==
    /\ Deliver(d)
    /\ Len(emitted') = Len(emitted) + 1
    /\ emitted'[Len(emitted')].type = "streaming"

\* The step is a deliver call or the return of dispatch d that broadcast an
\* assistant message.
ReplyMessageStep(d) ==
    /\ Deliver(d) \/ DispatchReturn(d)
    /\ Len(emitted') = Len(emitted) + 2
    /\ emitted'[Len(emitted) + 1].type = "message"

\* The chunk delivered by the step to dispatch d.
NewChunk(d) == dispatch'[d].chunks[Len(dispatch'[d].chunks)]

IsPrefix(a, b) == Len(a) <= Len(b) /\ SubSeq(b, 1, Len(a)) = a

StateOf(u) == IF u = MainUser THEN Cur ELSE others[u]

Users == {MainUser} \cup OtherUsers

\* The user each target addresses once one leading "pwa-chat:" is taken off.
AddressedUser(to) ==
    IF to = ChannelPrefix \o MainUser THEN MainUser
    ELSE IF to = ChannelPrefix \o ChannelPrefix \o MainUser
    THEN ChannelPrefix \o MainUser
    ELSE to

\* C16: pushOutboundMessage(to, t) acts on the user named by `to` without
\* one leading "pwa-chat:" and on no other user: it stores exactly one
\* message with role assistant, an "out" id and text t as the last element
\* of that user's history (earlier messages keep their order) and creates
\* exactly one message event, which carries it.
C16_PushStoresForNormalizedUser ==
    [][\A to \in PushTargets, text \in PushBodies : PushOutboundTo(to, text) =>
          LET u   == AddressedUser(to)
              old == StateOf(u)
              new == StateOf(u)'
              msg == new.history[Len(new.history)]
          IN  /\ new.history # <<>>
              /\ new.history = DropToMax(Append(old.history, msg))
              /\ msg.role = "assistant" /\ msg.text = text /\ msg.id[1] = "out"
              /\ new.emitted = Append(old.emitted, MessageEv(msg, old.sequence))
              /\ new.sequence = old.sequence + 1
              /\ \A v \in Users \ {u} :
                    /\ StateOf(v)'.history = StateOf(v).history
                    /\ StateOf(v)'.sequence = StateOf(v).sequence
                    /\ StateOf(v)'.eventBuffer = StateOf(v).eventBuffer]_vars

\* C16 witness: calls for "u" and "pwa-chat:u" filled the history of u in
\* call order, and a call for "pwa-chat:pwa-chat:u" reached the user
\* "pwa-chat:u".
C16_Witness ==
    /\ Len(history) = 2
    /\ history[1].text = Ok /\ history[2].text = HelloText
    /\ history[1].role = "assistant" /\ history[2].role = "assistant"
    /\ Len(others[ChannelPrefix \o MainUser].history) = 1

\* The body of the notification for a text: the text, or its first
\* PREVIEW_LEN characters and an ellipsis when it is longer.
ExpectedBody(text) ==
    IF Len(text) <= PREVIEW_LEN
    THEN text
    ELSE [i \in 1..(PREVIEW_LEN + 1) |-> IF i <= PREVIEW_LEN THEN text[i] ELSE Ellipsis]

\* C17: pushOutboundMessage fires exactly one push notification when the
\* user has no registered client at the call and none otherwise; its body
\* is the text, cut to PREVIEW_LEN characters and an ellipsis when longer;
\* a notification that fails changes nothing but its own outcome, and the
\* call's message is stored and broadcast whatever became of earlier ones.
C17_PushOnlyWithoutClients ==
    [][/\ \A to \in PushTargets, text \in PushBodies : PushOutboundTo(to, text) =>
             LET old == StateOf(AddressedUser(to))
                 new == StateOf(AddressedUser(to))'
             IN  /\ new.pushes =
                        IF old.clients = {}
                        THEN Append(old.pushes,
                                    [body |-> ExpectedBody(text), st |-> "pending"])
                        ELSE old.pushes
                 /\ Len(new.emitted) = Len(old.emitted) + 1
       /\ PushSettle(FALSE) =>
             /\ Len(pushes') = Len(pushes)
             /\ \A i \in 1..Len(pushes) : pushes'[i].body = pushes[i].body
             /\ UNCHANGED <<sequence, eventBuffer, history, wire, emitted, others,
                            clients, sock>>]_vars

\* C17 witness: a short and a long text were pushed while no client was
\* registered (two notifications, the second cut, one of them failed), and
\* a third text was pushed to a registered client without a notification.
C17_Witness ==
    /\ Len(pushes) = 2
    /\ pushes[1].body = Ok /\ pushes[1].st = "failed"
    /\ pushes[2].body = ExpectedBody(HelloText) /\ pushes[2].body # HelloText
    /\ clients # {}
    /\ Len(emitted) = 5 /\ emitted[5].type = "message"

\* User u has no client with an open socket.
NoOpenClient(u) ==
    \A s \in StateOf(u).clients : sock[s].readyState # "OPEN"

\* C18: a broadcast to a user with no connected client, a user never seen
\* before included, consumes exactly one seq, appends exactly one entry (the
\* event, under that seq) to the user's buffer, evicting the oldest entry of
\* a full buffer, and writes to no socket.
C18_BroadcastWithoutClients ==
    [][\A to \in PushTargets, text \in PushBodies :
          (PushOutboundTo(to, text) /\ NoOpenClient(AddressedUser(to))) =>
             LET old == StateOf(AddressedUser(to))
                 new == StateOf(AddressedUser(to))'
                 ev  == new.emitted[Len(new.emitted)]
                 pushed == Append(old.eventBuffer, [seq |-> old.sequence, msg |-> ev])
             IN  /\ new.sequence = old.sequence + 1
                 /\ Len(new.emitted) = Len(old.emitted) + 1
                 /\ ev.type = "message" /\ ev.seq = old.sequence
                 /\ new.eventBuffer =
                        IF Len(pushed) > EVENT_BUFFER_SIZE THEN Tail(pushed) ELSE pushed
                 /\ new.wire = old.wire
                 /\ wire' = wire]_vars

\* C18 witness: a user never seen before got its first event, and the user
\* of the connection got events while its socket was registered but closing,
\* the last of them evicting from the full buffer.
C18_Witness ==
    /\ others[ChannelPrefix \o MainUser].sequence = 1
    /\ Len(others[ChannelPrefix \o MainUser].eventBuffer) = 1
    /\ \E s \in Sockets : sock[s].readyState = "CLOSING" /\ s \in clients
                          /\ Len(wire[s]) = 2
    /\ Len(eventBuffer) = EVENT_BUFFER_SIZE
    /\ sequence = EVENT_BUFFER_SIZE + 2


\* C19: handling a ping frame writes exactly one frame, a pong without seq,
\* to the socket that sent the ping and nothing to any other socket, and
\* leaves the sequence counter, the event buffer, the history, the client
\* set and the streaming state as they were; so the counter after any
\* number of pings is the counter before them.
C19_PingSendsOnePongOnly ==
    [][\A s \in Sockets :
          OnFrame(s, PingFrame) =>
             /\ Len(wire'[s]) = Len(wire[s]) + 1
             /\ SubSeq(wire'[s], 1, Len(wire[s])) = wire[s]
             /\ wire'[s][Len(wire'[s])].type = "pong"
             /\ wire'[s][Len(wire'[s])].seq = NoSeq
             /\ \A r \in Sockets \ {s} : wire'[r] = wire[r]
             /\ sequence' = sequence
             /\ eventBuffer' = eventBuffer
             /\ history' = history
             /\ clients' = clients
             /\ streamingState' = streamingState
             /\ emitted' = emitted]_vars

\* C19 witness: two sockets are open, a message is stored and buffered and
\* its reply is under way; one socket sent MaxFrames pings in a row and got
\* as many pongs as its last frames, the other got none.
C19_Witness ==
    \E s, r \in Sockets :
        /\ s # r
        /\ sock[s].readyState = "OPEN" /\ sock[r].readyState = "OPEN"
        /\ history # <<>>
        /\ eventBuffer # <<>>
        /\ \E d \in Dispatches : dispatch[d].st = "running"
        /\ Pongs(s) = MaxFrames
        /\ \A i \in (Len(wire[s]) - MaxFrames + 1)..Len(wire[s]) : wire[s][i].type = "pong"
        /\ Pongs(r) = 0

\* C20: for a frame that is no well-formed ping, resync or message event
\* (text that is not JSON, JSON null or a number, an object of unknown type,
\* a message whose text is no string) the handler writes no frame, leaves
\* sequence, event buffer, history, client set and streaming state as they
\* were, does not throw, and the socket stays open.
C20_MalformedFrameIgnored ==
    [][\A s \in Sockets, frame \in MalformedFrames :
          OnFrame(s, frame) =>
             /\ wire' = wire
             /\ sequence' = sequence
             /\ eventBuffer' = eventBuffer
             /\ history' = history
             /\ clients' = clients
             /\ streamingState' = streamingState
             /\ ~sock'[s].threw
             /\ sock'[s].readyState = "OPEN"]_vars


\* C21: a message frame whose text is empty after trimming and that has no
\* images changes nothing: nothing is stored, no event is created or sent,
\* the counter and the buffer stay, no id is taken and no dispatch starts.
IsBlank(text) == \A i \in 1..Len(text) : IsSpace(text[i])

C21_BlankMessageChangesNothing ==
    [][\A s \in Sockets, text \in ClientTexts :
          (IsBlank(text) /\ OnFrame(s, MessageFrame(text))) =>
             /\ history' = history
             /\ emitted' = emitted
             /\ wire' = wire
             /\ sequence' = sequence
             /\ eventBuffer' = eventBuffer
             /\ idCount' = idCount
             /\ dispatch' = dispatch
             /\ streamingState' = streamingState]_vars

\* C21 witness: the handler of an open socket returned from a message of
\* blanks, on a connection that also sent a message that was stored and
\* whose dispatch is under way.
C21_Witness ==
    \E s \in Sockets :
        /\ sock[s].readyState = "OPEN"
        /\ sock[s].lastIgnored.type = "message"
        /\ sock[s].lastIgnored.isString
        /\ sock[s].lastIgnored.images = 0
        /\ IsBlank(sock[s].lastIgnored.text)
        /\ Len(history) = 1
        /\ \E d \in Dispatches : dispatch[d].st = "running"


\* C28: a message frame is ignored only when its trimmed text is empty and
\* it has no images: one with empty trimmed text and an image is stored as
\* a user message with its image metadata, broadcast, and dispatched.
C28_ImageOnlyMessageAccepted ==
    [][\A s \in Sockets, text \in ImageTexts :
          (IsBlank(text) /\ OnFrame(s, ImageFrame(text, 1))) =>
             /\ Len(history') > 0
             /\ history'[Len(history')].role = "user"
             /\ history'[Len(history')].imageCount = 1
             /\ Len(emitted') = Len(emitted) + 1
             /\ emitted'[Len(emitted')].type = "message"
             /\ emitted'[Len(emitted')].msg = history'[Len(history')]
             /\ \E d \in Dispatches :
                   dispatch[d].st = "idle" /\ dispatch'[d].st = "running"]_vars


\* C29: when a message frame is accepted, its user message is the last of
\* the stored history and the message event carrying it takes the next
\* seq; the dispatch started for it is newer than every dispatch started
\* before; and every event a dispatch produces (streaming, message,
\* streaming_end) has a higher seq than the message event that started it.
NewEvents == {emitted'[i] : i \in (Len(emitted) + 1)..Len(emitted')}

ResyncFrames ==
    <<HistoryEv(history, sequence)>> \o
       (IF streamingState.has
        THEN <<StreamingEv(streamingState.text, sequence + 1)>> ELSE <<>>)

C24_ResyncSendsHistoryAndStreaming ==
    [][\A s \in Sockets :
          OnFrame(s, ResyncFrame) =>
             LET n == Len(ResyncFrames)
                 b == Len(eventBuffer')
             IN  /\ wire'[s] = wire[s] \o ResyncFrames
                 /\ \A r \in Sockets \ {s} : wire'[r] = wire[r]
                 /\ sequence' = sequence + n
                 /\ b >= n
                 /\ \A i \in 1..n :
                       eventBuffer'[b - n + i] =
                          [seq |-> ResyncFrames[i].seq, msg |-> ResyncFrames[i]]
                 /\ SubSeq(eventBuffer', 1, b - n) =
                       SubSeq(eventBuffer, Len(eventBuffer) - (b - n) + 1, Len(eventBuffer))
                 /\ b = IF Len(eventBuffer) + n > EVENT_BUFFER_SIZE
                        THEN EVENT_BUFFER_SIZE ELSE Len(eventBuffer) + n
                 /\ sock' = sock
                 /\ clients' = clients
                 /\ history' = history
                 /\ streamingState' = streamingState
                 /\ timers' = timers]_vars

\* C24 witness: with two sockets open and a reply streaming, one socket
\* asked for a resync and got history and streaming as its last two frames,
\* which are the newest buffer entries; the other socket got neither.
C24_Witness ==
    \E s, r \in Sockets :
        /\ s # r
        /\ sock[s].readyState = "OPEN" /\ sock[r].readyState = "OPEN"
        /\ streamingState.has
        /\ history # <<>>
        /\ Len(wire[s]) >= 4
        /\ wire[s][Len(wire[s]) - 1].type = "history"
        /\ wire[s][Len(wire[s])].type = "streaming"
        /\ wire[s][Len(wire[s])].seq = sequence - 1
        /\ wire[s][Len(wire[s]) - 2].type = "streaming"
        /\ wire[r][Len(wire[r])].seq = sequence - 3
        /\ eventBuffer[Len(eventBuffer)].msg = wire[s][Len(wire[s])]


\* C22: whenever a user's stored history changes, and whenever a message
\* is appended for the user, the new history is the old one with that
\* message appended, cut from the left to the last MAX_HISTORY messages;
\* so every stored history has at most MAX_HISTORY
\* messages, in the order they were appended, and an append to a full
\* history evicts exactly its oldest message.
LastMessages(msgs) ==
    IF Len(msgs) > MAX_HISTORY
    THEN SubSeq(msgs, Len(msgs) - MAX_HISTORY + 1, Len(msgs)) ELSE msgs

C22_AppendKeepsLastMessages ==
    /\ [][/\ \A u \in Users :
                LET old == StateOf(u).history
                    new == StateOf(u)'.history
                IN  new # old =>
                       /\ new # <<>>
                       /\ new = LastMessages(Append(old, new[Len(new)]))
                       /\ \A i \in 1..Len(old) : old[i].id # new[Len(new)].id
          /\ \A to \in PushTargets, text \in PushBodies :
                PushOutboundTo(to, text) =>
                   LET old == StateOf(AddressedUser(to)).history
                       new == StateOf(AddressedUser(to))'.history
                       evs == StateOf(AddressedUser(to))'.emitted
                   IN  /\ evs # <<>>
                       /\ evs[Len(evs)].type = "message"
                       /\ evs[Len(evs)].msg.text = text
                       /\ new = LastMessages(Append(old, evs[Len(evs)].msg))]_vars
    /\ [](\A u \in Users :
             LET h == StateOf(u).history
             IN  /\ Len(h) <= MAX_HISTORY
                 /\ \A i, j \in 1..Len(h) : i < j => h[i].id[2] < h[j].id[2])

\* C22 witness: the history of a user is full and lost its oldest messages
\* to later appends, while another user's history holds what it was given.
C22_Witness ==
    /\ Len(history) = MAX_HISTORY
    /\ history[1].id[2] = 3
    /\ \E u \in OtherUsers : Len(others[u].history) = 1


\* C23 as stated: a request is accepted exactly when a tailscale-user-login
\* header is present, or the remote address is a loopback address, or no
\* gateway token is configured, or the first present of (Authorization with
\* an optional leading Bearer removed, X-Auth-Token, query parameter token)
\* equals the token. Present is read as: the header or parameter is there.
FirstPresent(req) ==
    IF req.authorization.present THEN Param(stripBearer(req.authorization.value))
    ELSE IF req.xToken.present THEN req.xToken
    ELSE req.queryToken

AcceptedAsStated(req) ==
    \/ req.tailscale.present
    \/ req.remote \in LoopbackAddresses
    \/ ~Truthy(req.token)
    \/ FirstPresent(req).present /\ FirstPresent(req).value = req.token.value

C23_AcceptsWhenHeaderPresent ==
    request.verdict # "none" => (request.verdict = "accept" <=> AcceptedAsStated(request))

\* C23 amended: a request is accepted exactly when a non-empty
\* tailscale-user-login header is present, or the remote address is a
\* loopback address, or no non-empty gateway token is configured, or the
\* first source that is there at all, even with an empty value, equals the
\* token; so a wrong or empty Authorization header is rejected even when a
\* later source carries the right token, and so is a request with no secret.
C23_AcceptsExactly ==
    request.verdict # "none" =>
       /\ request.verdict = "accept" <=>
             \/ request.tailscale.present /\ request.tailscale.value # <<>>
             \/ request.remote \in LoopbackAddresses
             \/ ~request.token.present \/ request.token.value = <<>>
             \/ /\ FirstPresent(request).present
                /\ FirstPresent(request).value = request.token.value
       /\ ( /\ ~Truthy(request.tailscale)
            /\ request.remote \notin LoopbackAddresses
            /\ Truthy(request.token)
            /\ \/ request.authorization \in {Param(Wrong), Param(<<>>)}
               \/ /\ ~request.authorization.present
                  /\ ~request.xToken.present
                  /\ ~request.queryToken.present )
          => request.verdict = "reject"

\* C23 witness: a request from elsewhere, with a token configured, a wrong
\* Authorization header and the right token in X-Auth-Token and in the
\* query, was rejected.
C23_Witness ==
    /\ request.verdict = "reject"
    /\ ~request.tailscale.present
    /\ request.remote \notin LoopbackAddresses
    /\ request.token = Param(Secret)
    /\ request.authorization = Param(Wrong)
    /\ request.xToken = Param(Secret)
    /\ request.queryToken = Param(Secret)

C30_ReadHistoryAlwaysSequence ==
    /\ ret.op = "readHistory" =>
            LET file == files[storagePath(ret.userId)]
            IN  /\ ~ret.threw
                /\ ret.result.kind = "array"
                /\ file.kind # "array" => ret.result.msgs = <<>>
    /\ ret.op = "appendMessage" => ~ret.threw

\* C26: each user's stored subscriptions have pairwise distinct
\* endpoints; adding a subscription whose endpoint is already stored for
\* the user replaces the stored one in place, the new keys winning and
\* the count staying, and leaves the other users' subscriptions as they
\* were.
C26_EndpointsDistinct ==
    /\ [](\A u \in SubUsers : \A i, j \in 1..Len(subscriptions[u]) :
            subscriptions[u][i].endpoint = subscriptions[u][j].endpoint => i = j)
    /\ [][\A u \in SubUsers, sub \in PushSubscriptions :
            AddSubscription(u, sub) =>
                /\ \A v \in SubUsers \ {u} : subscriptions'[v] = subscriptions[v]
                /\ \A i \in 1..Len(subscriptions[u]) :
                        subscriptions[u][i].endpoint = sub.endpoint =>
                            /\ Len(subscriptions'[u]) = Len(subscriptions[u])
                            /\ subscriptions'[u][i] = sub
                            /\ \A j \in 1..Len(subscriptions[u]) :
                                    j # i => subscriptions'[u][j] = subscriptions[u][j]]_vars

\* The first of two subscriptions of a user has changed its keys since a
\* send read them, at its place, and the other user has a subscription.
C26_Witness ==
    /\ sending.st = "flight"
    /\ sending.userId = "a"
    /\ sending.subs = <<PushSubscription(1, "k1"), PushSubscription(2, "k1")>>
    /\ subscriptions["a"] = <<PushSubscription(1, "k2"), PushSubscription(2, "k1")>>
    /\ subscriptions["b"] # <<>>

\* The subscriptions in a sequence.
SubsIn(subs) == {subs[i] : i \in 1..Len(subs)}

\* C27: when sendPushNotification(u, ...) settles, exactly the
\* subscriptions of u whose send failed with 404 or 410 are removed, and
\* every other stored subscription, among them those added while the
\* sends were in flight, for u or another user, is still stored.
C27_ExactlyFailedSubscriptionsRemoved ==
    [][sending.st = "flight" /\ sending'.st = "settled" =>
            LET u == sending.userId
                outcome == sending'.outcome
                failed == {sending.subs[i] : i \in
                            {j \in 1..Len(sending.subs) : outcome[j] \in {"404", "410"}}}
            IN  SendSettle(outcome) =>
                    /\ \A s \in failed : s \notin SubsIn(subscriptions'[u])
                    /\ \A s \in SubsIn(subscriptions[u]) \ failed :
                            s \in SubsIn(subscriptions'[u])
                    /\ \A v \in SubUsers \ {u} : subscriptions'[v] = subscriptions[v]]_vars

\* C27 as the code has it: when sendPushNotification(u, ...) settles, the
\* stored subscriptions of u whose endpoint is that of a send that failed
\* with 404 or 410 are removed, one stored under such an endpoint while
\* the sends were in flight included; all other subscriptions of u stay
\* in their order, and the other users' subscriptions are untouched.
C27_FailedEndpointsRemoved ==
    [][sending.st = "flight" /\ sending'.st = "settled" =>
            LET u == sending.userId
                outcome == sending'.outcome
                goneEndpoints == {sending.subs[i].endpoint : i \in
                            {j \in 1..Len(sending.subs) : outcome[j] \in {"404", "410"}}}
                stays(s) == s.endpoint \notin goneEndpoints
            IN  SendSettle(outcome) =>
                    /\ subscriptions'[u] = SelectSeq(subscriptions[u], stays)
                    /\ \A v \in SubUsers \ {u} : subscriptions'[v] = subscriptions[v]]_vars

\* A call settled with one endpoint cleaned up while a subscription added
\* during the sends is still stored, as is one of the other user.
C27_Witness ==
    /\ sending.st = "settled"
    /\ sending.userId = "a"
    /\ sending.outcome = <<"410", "other">>
    /\ sending.fresh
    /\ subscriptions["a"] # <<>>
    /\ subscriptions["b"] # <<>>

\* C35: every connectionId carried by a hello event was minted by this
\* server (one of the values randomUUID returned), so a catch-up is granted
\* only to a connection_id the server issued, and a foreign connection_id
\* gets a full sync under a fresh connectionId.
C35_HelloCarriesMintedId ==
    \A s \in Sockets : \A i \in 1..Len(wire[s]) :
        wire[s][i].type = "hello" =>
            /\ wire[s][i].connectionId \in 1..uuidCount
            /\ (sock[s].connection_id \notin 1..uuidCount => sock[s].shouldResync)

\* C37: a final delivery that leaves the accumulated text empty persists
\* nothing and broadcasts nothing: neither pushOutboundMessage nor
\* endStreaming runs, so no streaming_end is emitted for a reply that
\* never produced text.
C37_EmptyFinalEmitsNothing ==
    [][\A d \in Dispatches :
          (/\ Deliver(d)
           /\ ~dispatch[d].finalDelivered
           /\ dispatch'[d].finalDelivered
           /\ dispatch'[d].accumulatedText = <<>>) => ServerUnchanged]_vars

\* The assistant messages broadcast so far, by their place in emitted.
AssistantMessages ==
    {i \in 1..Len(emitted) : emitted[i].type = "message" /\ emitted[i].msg.role = "assistant"}

\* C40: one dispatch persists and broadcasts at most one assistant message
\* whatever deliveries the runtime makes, so where only dispatches produce
\* assistant messages there are no more of them than dispatches started,
\* and no delivered chunk is in two of them.
C40_OneMessagePerDispatch ==
    /\ Cardinality(AssistantMessages) <=
            Cardinality({d \in Dispatches : dispatch[d].st # "idle"})
    /\ \A i, j \in AssistantMessages :
            i # j => ~IsPrefix(emitted[i].msg.text, emitted[j].msg.text)

\* C38: two different (baseUserId, sessionId) pairs never share state: a
\* message appended for the user id of one pair never appears in the
\* history read for the user id of another.
C38_SessionsShareNoHistory ==
    [][\A u \in StoreUsers, msg \in StoreMessages :
          AppendMessage(u, msg) =>
              \A v \in StoreUsers \ {u} :
                  readHistoryFile(files', v) = readHistoryFile(files, v)]_vars

\* C31: an upgrade request that fails checkAuth, or whose path is not /ws,
\* never reaches the connection handler: it registers no client, changes
\* no sequence counter, buffer or client set, leaves the history alone and
\* is sent no server event.
C31_RefusedUpgradeChangesNothing ==
    [][\A path \in UpgradePaths :
          (OnUpgrade(path) /\ (path # WsPath \/ ~checkAuth(request))) =>
              UNCHANGED <<sequence, eventBuffer, clients, sock, wire, emitted, history,
                          uuidCount, idCount, streamingState, timers, others>>]_vars

\* An upgrade was answered with 401 while a client of an earlier, accepted
\* upgrade is connected, and the request at hand is one checkAuth rejects.
C31_Witness ==
    /\ response.upgrade
    /\ response.status = 401
    /\ ~checkAuth(request)
    /\ request.verdict = "none"
    /\ clients # {}

\* C39: with a gateway token configured, a requester that checkAuth rejects
\* gets the token in no HTTP response.
C39_TokenOnlyToAuthorized ==
    (response.token.present /\ response.token.value # <<>>) => response.authorized

\* The close or the error event of socket s has fired.
Ended(s) == sock[s].readyState = "CLOSED" \/ sock[s].errored

\* C32: after a socket's close or error event its ClientInfo is not in the
\* client set and no later broadcast is written to it; a removal takes out
\* that socket's ClientInfo and no other, also when error and close both
\* fire; and the client set holds exactly the accepted connections whose
\* close and error events have not fired.
C32_ClientsAreLiveConnections ==
    /\ [](clients = {s \in Sockets : sock[s].readyState # "NONE" /\ ~Ended(s)})
    /\ [][\A s \in Sockets :
            /\ Ended(s) => wire'[s] = wire[s]
            /\ (SocketClose(s) \/ SocketError(s)) => clients' = clients \ {s}]_vars

\* A socket's error and close events have both fired, and a message
\* broadcast afterwards reached the other socket only.
C32_Witness ==
    /\ sock[1].errored /\ sock[1].readyState = "CLOSED"
    /\ 2 \in clients
    /\ Len(wire[1]) = 2
    /\ Len(wire[2]) = 3
    /\ wire[2][3].type = "message"

\* The text of the last streaming event broadcast so far.
RECURSIVE LastStreamingText(_)
LastStreamingText(events) ==
    IF events = <<>> THEN <<>>
    ELSE IF events[Len(events)].type = "streaming" THEN events[Len(events)].text
    ELSE LastStreamingText(SubSeq(events, 1, Len(events) - 1))

\* C36: when two dispatches of one user run at the same time and their
\* deliveries interleave, every streaming event and every assistant message
\* of a dispatch carries the concatenation, in order, of the chunks delivered
\* to that dispatch and nothing of the other's; and the streaming state, while
\* present, holds the text of the last setStreamingText call, which is the
\* text of the dispatch that made it.
C36_DispatchesKeepOwnText ==
    /\ [](streamingState.has => streamingState.text = LastStreamingText(emitted))
    /\ [][\A d \in DOMAIN dispatch :
            /\ StreamingStep(d) =>
                  /\ emitted'[Len(emitted')].text = Concat(dispatch'[d].chunks)
                  /\ streamingState'.has
                  /\ streamingState'.text = Concat(dispatch'[d].chunks)
            /\ ReplyMessageStep(d) =>
                  IsMessage(emitted'[Len(emitted) + 1], "assistant",
                            Concat(dispatch'[d].chunks))]_vars

\* Two dispatches run, the first was given "hel" and the second "lo" after
\* it, the streaming state holds "lo", the second's text.
C36_Witness ==
    /\ dispatch[1].st = "running" /\ dispatch[2].st = "running"
    /\ dispatch[1].chunks = <<Hel>>
    /\ dispatch[2].chunks = <<Lo>>
    /\ streamingState.has /\ streamingState.text = Lo
    /\ LastStreamingText(emitted) = Lo

\* C34 as claimed: when the history write fails while a client message or
\* an outbound message is handled, the message event is still broadcast to
\* the user's clients, and no other user's sequence, buffer, clients or
\* streaming state changes.
C34_WriteFailureStillBroadcasts ==
    [][/\ \A s \in Sockets : ClientMessageWriteFails(s, Hi) =>
             /\ Len(emitted') = Len(emitted) + 1
             /\ emitted'[Len(emitted')].type = "message"
             /\ others' = others
       /\ \A to \in PushTargets : PushOutboundWriteFails(to) =>
             LET old == StateOf(AddressedUser(to))
                 new == StateOf(AddressedUser(to))'
             IN  /\ Len(new.emitted) = Len(old.emitted) + 1
                 /\ new.emitted[Len(new.emitted)].type = "message"
                 /\ \A u \in (OtherUsers \cup {MainUser}) \ {AddressedUser(to)} :
                       StateOf(u)' = StateOf(u)]_vars

\* A client of the user whose socket is open and whose writes fail.
FailingClient(s) == s \in clients /\ sock[s].readyState = "OPEN" /\ sock[s].failing

====
